---- MODULE Spec2Model ----
(***************************************************************************)
(* The freeciv unit pipeline of civjs.                                     *)
(*                                                                         *)
(*   parse_units.py          ruleset text -> units_data (raw records)      *)
(*   create_freeciv_units.py raw records  -> enhanced_units, final document *)
(*                                                                         *)
(* A Python str is a sequence of one-character strings, so that strip,     *)
(* split, startswith and the regular expressions are computed character by *)
(* character.  Line indices are the 0-based indices of the source:         *)
(* Python's lines[k] is lines[k + 1] here.  A line is kept without the     *)
(* newline readlines() leaves on it: every use in parse_unit_section       *)
(* strips the line first, and main's header pattern is anchored at the     *)
(* start of the line only.                                                 *)
(***************************************************************************)
EXTENDS Integers, Sequences, FiniteSets, TLC

VARIABLES
    lines,            \* parse_units.main: the ruleset text, f.readlines()
    pc,               \* where the run is: main, section, saved, enrich, done; call, returned
    main_i,           \* parse_units.main: the index i of the for loop
    unit_name,        \* parse_units.main: the name of the section being parsed
    units_data,       \* parse_units.main: dict name -> record, in insertion order
    start_idx,        \* parse_unit_section: its argument
    i,                \* parse_unit_section: the loop index
    in_reqs,          \* parse_unit_section: a requirements block is open
    reqs_buffer,      \* parse_unit_section: the text of the open block
    unit_data,        \* parse_unit_section: the record being built
    consumed,         \* history: <<start_idx, i>> of every loop iteration that did not break
    raw_units,        \* create_freeciv_units: json.load of the intermediate file
    enhanced_units,   \* create_freeciv_units: dict unit_id -> enhanced unit
    final_structure,  \* create_freeciv_units: the document written at the end
    fn,               \* a direct call of one function: its name
    arg,              \* a direct call: the argument
    ret               \* a direct call: the value returned

vars == <<lines, pc, main_i, unit_name, units_data, start_idx, i, in_reqs,
          reqs_buffer, unit_data, consumed, raw_units, enhanced_units,
          final_structure, fn, arg, ret>>

parser_vars == <<lines, main_i, unit_name, units_data, start_idx, i, in_reqs,
                 reqs_buffer, unit_data, consumed>>

enrich_vars == <<raw_units, enhanced_units, final_structure>>

call_vars == <<fn, arg, ret>>

----------------------------------------------------------------------------
(* Python values.                                                          *)

None == [t |-> "none"]

VInt(n) == [t |-> "int", v |-> n]

VStr(s) == [t |-> "str", v |-> s]

VList(l) == [t |-> "list", v |-> l]

\* bool(x): a value's truth in an if
Truthy(x) ==
    CASE x.t = "none" -> FALSE
      [] x.t = "int" -> x.v # 0
      [] OTHER -> x.v # <<>>

\* {}: a dict whose insertion order is not observed
EmptyDict == [k \in {} |-> None]

\* d[k] = v
Put(d, k, v) == [x \in (DOMAIN d) \cup {k} |-> IF x = k THEN v ELSE d[x]]

\* dict.get, had it given the default for a value that is not truthy
Get_OrDefault(d, k, default) ==
    IF k \in DOMAIN d /\ Truthy(d[k]) THEN d[k] ELSE default

\* d.get(k, default)
Get(d, k, default) == IF k \in DOMAIN d THEN d[k] ELSE default

\* A dict whose insertion order is observed: a sequence of [key, value] entries
\* with distinct keys.
Keys(od) == {od[n].key : n \in 1..Len(od)}

KeyIndex(od, k) == CHOOSE n \in 1..Len(od) : od[n].key = k

Lookup(od, k) == od[KeyIndex(od, k)].value

\* od[k] = v, had the dict under an old key been updated with v: the keys of
\* the old value that v has not are kept
DictSet_Merge(od, k, v) ==
    IF k \in Keys(od)
    THEN LET old == od[KeyIndex(od, k)].value
         IN  [od EXCEPT ![KeyIndex(od, k)] =
                 [key |-> k,
                  value |-> [x \in DOMAIN old \cup DOMAIN v |->
                                IF x \in DOMAIN v THEN v[x] ELSE old[x]]]]
    ELSE Append(od, [key |-> k, value |-> v])

\* od[k] = v, had an old key moved to the end when it is set again
DictSet_MoveToEnd(od, k, v) ==
    Append(SelectSeq(od, LAMBDA e : e.key # k), [key |-> k, value |-> v])

\* od[k] = v: a new key is appended, an old key keeps its place
DictSet(od, k, v) ==
    IF k \in Keys(od)
    THEN [od EXCEPT ![KeyIndex(od, k)] = [key |-> k, value |-> v]]
    ELSE Append(od, [key |-> k, value |-> v])

----------------------------------------------------------------------------
(* Python str methods.                                                     *)

Whitespace == {" ", "\t", "\n", "\r"}

Quote == "\""

UpperCase == <<"A","B","C","D","E","F","G","H","I","J","K","L","M",
               "N","O","P","Q","R","S","T","U","V","W","X","Y","Z">>

LowerCase == <<"a","b","c","d","e","f","g","h","i","j","k","l","m",
               "n","o","p","q","r","s","t","u","v","w","x","y","z">>

Digits == <<"0","1","2","3","4","5","6","7","8","9">>

Range(s) == {s[k] : k \in 1..Len(s)}

IsDigit(c) == c \in Range(Digits)

\* \w of a regular expression
WordChars == Range(UpperCase) \cup Range(LowerCase) \cup Range(Digits) \cup {"_"}

RECURSIVE lstrip(_, _)
lstrip(s, chars) ==
    IF s # <<>> /\ Head(s) \in chars THEN lstrip(Tail(s), chars) ELSE s

RECURSIVE rstrip(_, _)
rstrip(s, chars) ==
    IF s # <<>> /\ s[Len(s)] \in chars
    THEN rstrip(SubSeq(s, 1, Len(s) - 1), chars)
    ELSE s

\* s.strip(chars): every leading and every trailing character of chars
strip(s, chars) == rstrip(lstrip(s, chars), chars)

startswith(s, prefix) ==
    Len(s) >= Len(prefix) /\ SubSeq(s, 1, Len(prefix)) = prefix

endswith(s, suffix) ==
    Len(s) >= Len(suffix) /\ SubSeq(s, Len(s) - Len(suffix) + 1, Len(s)) = suffix

\* the 1-based place of the first c in s from place p on, 0 when there is none
find(s, c, p) ==
    IF \E k \in p..Len(s) : s[k] = c
    THEN CHOOSE k \in p..Len(s) : s[k] = c /\ \A j \in p..(k - 1) : s[j] # c
    ELSE 0

\* s.split(c)
RECURSIVE split(_, _)
split(s, c) ==
    LET k == find(s, c, 1)
    IN  IF k = 0
        THEN <<s>>
        ELSE <<SubSeq(s, 1, k - 1)>> \o split(SubSeq(s, k + 1, Len(s)), c)

\* s.split(c, 1)
split1(s, c) ==
    LET k == find(s, c, 1)
    IN  IF k = 0
        THEN <<s>>
        ELSE <<SubSeq(s, 1, k - 1), SubSeq(s, k + 1, Len(s))>>

LowerChar(c) ==
    IF c \in Range(UpperCase)
    THEN LowerCase[CHOOSE k \in 1..26 : UpperCase[k] = c]
    ELSE c

\* s.lower()
RECURSIVE lower(_)
lower(s) == IF s = <<>> THEN <<>> ELSE <<LowerChar(Head(s))>> \o lower(Tail(s))

\* s.replace(a, b) for one-character a and b
RECURSIVE replace(_, _, _)
replace(s, a, b) ==
    IF s = <<>>
    THEN <<>>
    ELSE <<IF Head(s) = a THEN b ELSE Head(s)>> \o replace(Tail(s), a, b)

\* the number of consecutive characters of s, from place p on, that are in chars
RECURSIVE RunLen(_, _, _)
RunLen(s, p, chars) ==
    IF p <= Len(s) /\ s[p] \in chars THEN 1 + RunLen(s, p + 1, chars) ELSE 0

\* the number of consecutive characters of s, from place p on, that are not in chars
RECURSIVE RunLenNot(_, _, _)
RunLenNot(s, p, chars) ==
    IF p <= Len(s) /\ s[p] \notin chars THEN 1 + RunLenNot(s, p + 1, chars) ELSE 0

\* int(s) succeeds: optional surrounding whitespace, an optional sign, digits,
\* single underscores between digits
IsIntLiteral(s) ==
    LET t == strip(s, Whitespace)
        u == IF t # <<>> /\ t[1] \in {"+", "-"} THEN Tail(t) ELSE t
    IN  /\ u # <<>>
        /\ \A k \in 1..Len(u) : IsDigit(u[k]) \/ u[k] = "_"
        /\ IsDigit(u[1]) /\ IsDigit(u[Len(u)])
        /\ \A k \in 1..(Len(u) - 1) : ~(u[k] = "_" /\ u[k + 1] = "_")

RECURSIVE DigitsValue(_, _)
DigitsValue(u, acc) ==
    IF u = <<>>
    THEN acc
    ELSE IF Head(u) = "_"
         THEN DigitsValue(Tail(u), acc)
         ELSE DigitsValue(Tail(u),
                          10 * acc + (CHOOSE k \in 1..10 : Digits[k] = Head(u)) - 1)

\* int(s), where it succeeds
IntValue(s) ==
    LET t == strip(s, Whitespace)
    IN  IF t[1] = "-"
        THEN 0 - DigitsValue(Tail(t), 0)
        ELSE IF t[1] = "+" THEN DigitsValue(Tail(t), 0) ELSE DigitsValue(t, 0)

----------------------------------------------------------------------------
(* parse_units.py                                                          *)

\* re.search(r'"Tech",\s*"([^"]+)"', s) tried at place p: the name, when it matches
TechMatchAt(s, p) ==
    LET q == p + 7 + RunLen(s, p + 7, Whitespace)
        n == RunLenNot(s, q + 1, {Quote})
    IN  IF /\ p + 6 <= Len(s)
           /\ SubSeq(s, p, p + 6) = <<"\"","T","e","c","h","\"",",">>
           /\ q <= Len(s) /\ s[q] = Quote
           /\ n >= 1
           /\ q + n + 1 <= Len(s) /\ s[q + n + 1] = Quote
        THEN [matched |-> TRUE, name |-> SubSeq(s, q + 1, q + n)]
        ELSE [matched |-> FALSE, name |-> <<>>]

\* parse_reqs, had it taken the last match of the text and not the first
parse_reqs_Last(req_string) ==
    LET hits == {p \in 1..Len(req_string) : TechMatchAt(req_string, p).matched}
    IN  IF hits # {}
        THEN LET last == CHOOSE p \in hits : \A r \in hits : r <= p
             IN  <<[type |-> <<"T","e","c","h">>,
                    name |-> TechMatchAt(req_string, last).name,
                    range |-> <<"P","l","a","y","e","r">>]>>
        ELSE <<>>

\* parse_reqs: the requirements of a block's text
parse_reqs(req_string) ==
    IF req_string = <<>>
    THEN <<>>
    ELSE LET hits == {p \in 1..Len(req_string) : TechMatchAt(req_string, p).matched}
         IN  IF hits # {}
             THEN LET first == CHOOSE p \in hits : \A r \in hits : p <= r
                  IN  <<[type |-> <<"T","e","c","h">>,
                         name |-> TechMatchAt(req_string, first).name,
                         range |-> <<"P","l","a","y","e","r">>]>>
             ELSE <<>>

\* the comprehension, had it no filter: [x.strip().strip('"') for x in pieces]
RECURSIVE CleanPieces_KeepBlank(_)
CleanPieces_KeepBlank(pieces) ==
    IF pieces = <<>>
    THEN <<>>
    ELSE <<strip(strip(Head(pieces), Whitespace), {Quote})>>
         \o CleanPieces_KeepBlank(Tail(pieces))

\* the comprehension of parse_flags and parse_roles:
\* [x.strip().strip('"') for x in pieces if x.strip()]
RECURSIVE CleanPieces(_)
CleanPieces(pieces) ==
    IF pieces = <<>>
    THEN <<>>
    ELSE LET x == strip(Head(pieces), Whitespace)
         IN  (IF x # <<>> THEN <<strip(x, {Quote})>> ELSE <<>>)
             \o CleanPieces(Tail(pieces))

parse_flags(flags_string) ==
    IF flags_string = <<>> \/ strip(flags_string, Whitespace) = <<"\"","\"">>
    THEN <<>>
    ELSE LET flags_clean == strip(strip(flags_string, {Quote}), Whitespace)
         IN  IF flags_clean = <<>>
             THEN <<>>
             ELSE CleanPieces(split(flags_clean, ","))

parse_roles(roles_string) ==
    IF roles_string = <<>> \/ strip(roles_string, Whitespace) = <<"\"","\"">>
    THEN <<>>
    ELSE LET roles_clean == strip(strip(roles_string, {Quote}), Whitespace)
         IN  IF roles_clean = <<>>
             THEN <<>>
             ELSE CleanPieces(split(roles_clean, ","))

\* the keys whose values are converted with int()
NumericFields ==
    {<<"b","u","i","l","d","_","c","o","s","t">>, <<"p","o","p","_","c","o","s","t">>, <<"a","t","t","a","c","k">>, <<"d","e","f","e","n","s","e">>, <<"h","i","t","p","o","i","n","t","s">>,
     <<"f","i","r","e","p","o","w","e","r">>, <<"m","o","v","e","_","r","a","t","e">>, <<"v","i","s","i","o","n","_","r","a","d","i","u","s","_","s","q">>, <<"t","r","a","n","s","p","o","r","t","_","c","a","p">>,
     <<"f","u","e","l">>, <<"u","k","_","h","a","p","p","y">>, <<"u","k","_","s","h","i","e","l","d">>, <<"u","k","_","f","o","o","d">>, <<"u","k","_","g","o","l","d">>}

\* the two tests, had they come after the test of the open block: no line
\* ends the loop while a requirements block is open
StopsAtSection_AfterBlock(line, idx, start) ==
    /\ ~in_reqs
    /\ \/ startswith(line, <<"[">>) /\ ~startswith(line, <<"[","u","n","i","t","_">>)
       \/ startswith(line, <<"[","u","n","i","t","_">>) /\ idx > start + 1

\* the two tests that end the loop of parse_unit_section at (stripped) line
StopsAtSection(line, idx, start) ==
    \/ startswith(line, <<"[">>) /\ ~startswith(line, <<"[","u","n","i","t","_">>)
    \/ startswith(line, <<"[","u","n","i","t","_">>) /\ idx > start + 1

\* a line that opens a requirements block
OpensReqs(line) == startswith(line, <<"r","e","q","s">>)

\* a line that closes the open requirements block
ClosesReqs(line) == endswith(strip(line, Whitespace), <<"}">>)

\* the key of a key = value line
KeyOf(line) == strip(split1(line, "=")[1], Whitespace)

\* the value of a key = value line, as a string
ValueOf(line) == strip(strip(split1(line, "=")[2], Whitespace), {Quote})

\* the conversion, had it no int(): numeric fields stay strings
Convert_NoCoercion(key, value) ==
    IF key = <<"f","l","a","g","s">>
    THEN VList(parse_flags(value))
    ELSE IF key = <<"r","o","l","e","s">>
         THEN VList(parse_roles(value))
         ELSE VStr(value)

\* what is stored under key for the string value
Convert(key, value) ==
    IF key \in NumericFields
    THEN IF IsIntLiteral(value) THEN VInt(IntValue(value)) ELSE VStr(value)
    ELSE IF key = <<"f","l","a","g","s">>
         THEN VList(parse_flags(value))
         ELSE IF key = <<"r","o","l","e","s">>
              THEN VList(parse_roles(value))
              ELSE VStr(value)

\* the else branch of the loop body: a regular key = value line, or nothing
ParseKeyValue(data, line) ==
    IF "=" \in Range(line)
    THEN Put(data, KeyOf(line), Convert(KeyOf(line), ValueOf(line)))
    ELSE data

\* the loop body, had the closing test been made on the opening line as well:
\* a block written on one line is stored at once
LoopBody_ClosesAtOpening(st, line) ==
    IF OpensReqs(line)
    THEN IF ClosesReqs(line)
         THEN [unit_data |-> Put(st.unit_data, <<"r","e","q","s">>, VList(parse_reqs(line))),
               in_reqs |-> FALSE,
               reqs_buffer |-> <<>>]
         ELSE [st EXCEPT !.in_reqs = TRUE, !.reqs_buffer = line]
    ELSE IF st.in_reqs
         THEN LET buffer == st.reqs_buffer \o <<" ">> \o line
              IN  IF ClosesReqs(line)
                  THEN [unit_data |-> Put(st.unit_data, <<"r","e","q","s">>, VList(parse_reqs(buffer))),
                        in_reqs |-> FALSE,
                        reqs_buffer |-> <<>>]
                  ELSE [st EXCEPT !.reqs_buffer = buffer]
         ELSE [st EXCEPT !.unit_data = ParseKeyValue(st.unit_data, line)]

\* the loop body, had the key = value parse gone before the open block: a
\* buffered line with = is stored as well
LoopBody_ParsesInBlock(st, line) ==
    IF OpensReqs(line)
    THEN [st EXCEPT !.in_reqs = TRUE, !.reqs_buffer = line]
    ELSE IF st.in_reqs
         THEN LET buffer == st.reqs_buffer \o <<" ">> \o line
              IN  IF ClosesReqs(line)
                  THEN [unit_data |-> Put(st.unit_data, <<"r","e","q","s">>, VList(parse_reqs(buffer))),
                        in_reqs |-> FALSE,
                        reqs_buffer |-> <<>>]
                  ELSE [st EXCEPT !.reqs_buffer = buffer,
                                  !.unit_data = ParseKeyValue(st.unit_data, line)]
         ELSE [st EXCEPT !.unit_data = ParseKeyValue(st.unit_data, line)]

\* One iteration of the loop of parse_unit_section that does not break, on the
\* locals st = [unit_data, in_reqs, reqs_buffer] and the stripped line.
LoopBody(st, line) ==
    IF OpensReqs(line)
    THEN [st EXCEPT !.in_reqs = TRUE, !.reqs_buffer = line]
    ELSE IF st.in_reqs
         THEN LET buffer == st.reqs_buffer \o <<" ">> \o line
              IN  IF ClosesReqs(line)
                  THEN [unit_data |-> Put(st.unit_data, <<"r","e","q","s">>, VList(parse_reqs(buffer))),
                        in_reqs |-> FALSE,
                        reqs_buffer |-> <<>>]
                  ELSE [st EXCEPT !.reqs_buffer = buffer]
         ELSE [st EXCEPT !.unit_data = ParseKeyValue(st.unit_data, line)]

\* parse_unit_section(lines, start), run to its return, from index idx with locals st
RECURSIVE SectionFrom(_, _, _, _)
SectionFrom(text, start, idx, st) ==
    IF idx < Len(text) /\ ~StopsAtSection(strip(text[idx + 1], Whitespace), idx, start)
    THEN SectionFrom(text, start, idx + 1, LoopBody(st, strip(text[idx + 1], Whitespace)))
    ELSE st.unit_data

parse_unit_section(text, start) ==
    SectionFrom(text, start, start + 1,
                [unit_data |-> EmptyDict, in_reqs |-> FALSE, reqs_buffer |-> <<>>])

\* the match of main, had its pattern been ^\[(\w+)\]: every bracketed header
HeaderMatch_AnyBracket(line) ==
    LET n == RunLen(line, 2, WordChars)
    IN  IF /\ startswith(line, <<"[">>)
           /\ n >= 1
           /\ 2 + n <= Len(line) /\ line[2 + n] = "]"
        THEN [matched |-> TRUE, name |-> SubSeq(line, 2, 1 + n)]
        ELSE [matched |-> FALSE, name |-> <<>>]

\* re.match(r'^\[unit_(\w+)\]', line) of main: the unit name, when it matches
HeaderMatch(line) ==
    LET n == RunLen(line, 7, WordChars)
    IN  IF /\ startswith(line, <<"[","u","n","i","t","_">>)
           /\ n >= 1
           /\ 7 + n <= Len(line) /\ line[7 + n] = "]"
        THEN [matched |-> TRUE, name |-> SubSeq(line, 7, 6 + n)]
        ELSE [matched |-> FALSE, name |-> <<>>]

----------------------------------------------------------------------------
(* create_freeciv_units.py                                                 *)

\* the static table: display name -> identifier
tech_mappings ==
    (<<"B","r","o","n","z","e"," ","W","o","r","k","i","n","g">> :> <<"b","r","o","n","z","e","_","w","o","r","k","i","n","g">>) @@
    (<<"W","a","r","r","i","o","r"," ","C","o","d","e">> :> <<"w","a","r","r","i","o","r","_","c","o","d","e">>) @@
    (<<"I","r","o","n"," ","W","o","r","k","i","n","g">> :> <<"i","r","o","n","_","w","o","r","k","i","n","g">>) @@
    (<<"H","o","r","s","e","b","a","c","k"," ","R","i","d","i","n","g">> :> <<"h","o","r","s","e","b","a","c","k","_","r","i","d","i","n","g">>) @@
    (<<"T","h","e"," ","W","h","e","e","l">> :> <<"t","h","e","_","w","h","e","e","l">>) @@
    (<<"M","a","p"," ","M","a","k","i","n","g">> :> <<"m","a","p","_","m","a","k","i","n","g">>) @@
    (<<"W","r","i","t","i","n","g">> :> <<"w","r","i","t","i","n","g">>) @@
    (<<"P","o","t","t","e","r","y">> :> <<"p","o","t","t","e","r","y">>) @@
    (<<"M","a","t","h","e","m","a","t","i","c","s">> :> <<"m","a","t","h","e","m","a","t","i","c","s">>) @@
    (<<"C","h","i","v","a","l","r","y">> :> <<"c","h","i","v","a","l","r","y">>) @@
    (<<"F","e","u","d","a","l","i","s","m">> :> <<"f","e","u","d","a","l","i","s","m">>) @@
    (<<"N","a","v","i","g","a","t","i","o","n">> :> <<"n","a","v","i","g","a","t","i","o","n">>) @@
    (<<"G","u","n","p","o","w","d","e","r">> :> <<"g","u","n","p","o","w","d","e","r">>) @@
    (<<"M","a","g","n","e","t","i","s","m">> :> <<"m","a","g","n","e","t","i","s","m">>) @@
    (<<"S","t","e","a","m"," ","E","n","g","i","n","e">> :> <<"s","t","e","a","m","_","e","n","g","i","n","e">>) @@
    (<<"M","e","t","a","l","l","u","r","g","y">> :> <<"m","e","t","a","l","l","u","r","g","y">>) @@
    (<<"E","l","e","c","t","r","i","c","i","t","y">> :> <<"e","l","e","c","t","r","i","c","i","t","y">>) @@
    (<<"M","a","c","h","i","n","e"," ","T","o","o","l","s">> :> <<"m","a","c","h","i","n","e","_","t","o","o","l","s">>) @@
    (<<"S","t","e","e","l">> :> <<"s","t","e","e","l">>) @@
    (<<"I","n","d","u","s","t","r","i","a","l","i","z","a","t","i","o","n">> :> <<"i","n","d","u","s","t","r","i","a","l","i","z","a","t","i","o","n">>) @@
    (<<"C","o","n","s","c","r","i","p","t","i","o","n">> :> <<"c","o","n","s","c","r","i","p","t","i","o","n">>) @@
    (<<"L","e","a","d","e","r","s","h","i","p">> :> <<"l","e","a","d","e","r","s","h","i","p">>) @@
    (<<"T","a","c","t","i","c","s">> :> <<"t","a","c","t","i","c","s">>) @@
    (<<"F","l","i","g","h","t">> :> <<"f","l","i","g","h","t">>) @@
    (<<"A","d","v","a","n","c","e","d"," ","F","l","i","g","h","t">> :> <<"a","d","v","a","n","c","e","d","_","f","l","i","g","h","t">>) @@
    (<<"R","o","c","k","e","t","r","y">> :> <<"r","o","c","k","e","t","r","y">>) @@
    (<<"C","o","m","b","i","n","e","d"," ","A","r","m","s">> :> <<"c","o","m","b","i","n","e","d","_","a","r","m","s">>) @@
    (<<"A","m","p","h","i","b","i","o","u","s"," ","W","a","r","f","a","r","e">> :> <<"a","m","p","h","i","b","i","o","u","s","_","w","a","r","f","a","r","e">>) @@
    (<<"L","a","b","o","r"," ","U","n","i","o","n">> :> <<"l","a","b","o","r","_","u","n","i","o","n">>) @@
    (<<"M","o","b","i","l","e"," ","W","a","r","f","a","r","e">> :> <<"m","o","b","i","l","e","_","w","a","r","f","a","r","e">>) @@
    (<<"R","o","b","o","t","i","c","s">> :> <<"r","o","b","o","t","i","c","s">>) @@
    (<<"S","t","e","a","l","t","h">> :> <<"s","t","e","a","l","t","h">>) @@
    (<<"A","u","t","o","m","o","b","i","l","e">> :> <<"a","u","t","o","m","o","b","i","l","e">>) @@
    (<<"C","o","m","b","u","s","t","i","o","n">> :> <<"c","o","m","b","u","s","t","i","o","n">>) @@
    (<<"G","u","e","r","i","l","l","a"," ","W","a","r","f","a","r","e">> :> <<"g","u","e","r","i","l","l","a","_","w","a","r","f","a","r","e">>) @@
    (<<"E","x","p","l","o","s","i","v","e","s">> :> <<"e","x","p","l","o","s","i","v","e","s">>) @@
    (<<"E","s","p","i","o","n","a","g","e">> :> <<"e","s","p","i","o","n","a","g","e">>) @@
    (<<"T","r","a","d","e">> :> <<"t","r","a","d","e">>) @@
    (<<"T","h","e"," ","C","o","r","p","o","r","a","t","i","o","n">> :> <<"t","h","e","_","c","o","r","p","o","r","a","t","i","o","n">>) @@
    (<<"S","e","a","f","a","r","i","n","g">> :> <<"s","e","a","f","a","r","i","n","g">>)

\* re.search(r'_\("([^"]+)"\)', s) tried at place p
PlainNameAt(s, p) ==
    LET n == RunLenNot(s, p + 3, {Quote})
    IN  IF /\ p + 2 <= Len(s)
           /\ SubSeq(s, p, p + 2) = <<"_","(","\"">>
           /\ n >= 1
           /\ p + n + 4 <= Len(s)
           /\ SubSeq(s, p + n + 3, p + n + 4) = <<"\"",")">>
        THEN [matched |-> TRUE, group |-> SubSeq(s, p + 3, p + n + 2)]
        ELSE [matched |-> FALSE, group |-> <<>>]

\* re.search(r'_\("\?[^:]*:([^"]+)"\)', s) tried at place p
ContextNameAt(s, p) ==
    LET colon == find(s, ":", p + 4)
        n == RunLenNot(s, colon + 1, {Quote})
    IN  IF /\ p + 3 <= Len(s)
           /\ SubSeq(s, p, p + 3) = <<"_","(","\"","?">>
           /\ colon # 0
           /\ n >= 1
           /\ colon + n + 2 <= Len(s)
           /\ SubSeq(s, colon + n + 1, colon + n + 2) = <<"\"",")">>
        THEN [matched |-> TRUE, group |-> SubSeq(s, colon + 1, colon + n)]
        ELSE [matched |-> FALSE, group |-> <<>>]

\* re.search(r'_\("([^"]+)"\)', s): the leftmost match
SearchPlain(s) ==
    LET hits == {p \in 1..Len(s) : PlainNameAt(s, p).matched}
    IN  IF hits = {}
        THEN [matched |-> FALSE, group |-> <<>>]
        ELSE PlainNameAt(s, CHOOSE p \in hits : \A r \in hits : p <= r)

\* re.search(r'_\("\?[^:]*:([^"]+)"\)', s): the leftmost match
SearchContext(s) ==
    LET hits == {p \in 1..Len(s) : ContextNameAt(s, p).matched}
    IN  IF hits = {}
        THEN [matched |-> FALSE, group |-> <<>>]
        ELSE ContextNameAt(s, CHOOSE p \in hits : \A r \in hits : p <= r)

clean_name(name_str) ==
    IF startswith(name_str, <<"_","(","\"">>)
    THEN IF SearchPlain(name_str).matched
         THEN SearchPlain(name_str).group
         ELSE strip(name_str, {Quote})
    ELSE IF startswith(name_str, <<"_","(","\"","?">>)
         THEN IF SearchContext(name_str).matched
              THEN SearchContext(name_str).group
              ELSE strip(name_str, {Quote})
         ELSE strip(name_str, {Quote})

\* the resolution, had it kept the display name's case and no table
ResolveTech_KeepCase(tech_name) == replace(tech_name, " ", "_")

\* tech_mappings.get(tech_name, tech_name.lower().replace(' ', '_'))
ResolveTech(tech_name) ==
    IF tech_name \in DOMAIN tech_mappings
    THEN tech_mappings[tech_name]
    ELSE replace(lower(tech_name), " ", "_")

\* the loop, had it no return at the first Tech entry: the last one decides
RECURSIVE FirstTech_Last(_)
FirstTech_Last(reqs) ==
    IF reqs = <<>>
    THEN None
    ELSE IF "type" \in DOMAIN reqs[Len(reqs)] /\ reqs[Len(reqs)]["type"] = <<"T","e","c","h">>
         THEN VStr(ResolveTech(IF "name" \in DOMAIN reqs[Len(reqs)]
                               THEN reqs[Len(reqs)]["name"]
                               ELSE <<>>))
         ELSE FirstTech_Last(SubSeq(reqs, 1, Len(reqs) - 1))

\* the for loop of get_tech_requirement over the list reqs
RECURSIVE FirstTech(_)
FirstTech(reqs) ==
    IF reqs = <<>>
    THEN None
    ELSE IF "type" \in DOMAIN Head(reqs) /\ Head(reqs)["type"] = <<"T","e","c","h">>
         THEN VStr(ResolveTech(IF "name" \in DOMAIN Head(reqs)
                               THEN Head(reqs)["name"]
                               ELSE <<>>))
         ELSE FirstTech(Tail(reqs))

get_tech_requirement(data) ==
    IF <<"r","e","q","s">> \in DOMAIN data /\ Truthy(data[<<"r","e","q","s">>])
    THEN FirstTech(data[<<"r","e","q","s">>].v)
    ELSE None

\* get_obsolete_by, had it no test of the sentinel "None"
get_obsolete_by_NoSentinel(obsolete_str) ==
    IF Truthy(obsolete_str)
    THEN VStr(replace(lower(obsolete_str.v), " ", "_"))
    ELSE None

get_obsolete_by(obsolete_str) ==
    IF Truthy(obsolete_str) /\ obsolete_str # VStr(<<"N","o","n","e">>)
    THEN VStr(replace(lower(obsolete_str.v), " ", "_"))
    ELSE None

\* the value of "cargo", had it passed a scalar through
Cargo_Scalar(data) ==
    LET c == Get(data, <<"c","a","r","g","o">>, None)
    IN  IF c.t = "list" \/ Truthy(c) THEN c ELSE VList(<<>>)

\* the value of "cargo", had it looked at the units enriched before: the
\* cargo of the unit before stands in for one that is absent
Cargo_Remembered(data) ==
    LET c == Get(data, <<"c","a","r","g","o">>, None)
    IN  IF c.t = "list"
        THEN c
        ELSE IF Truthy(c)
             THEN VList(<<c>>)
             ELSE IF enhanced_units # <<>>
                  THEN enhanced_units[Len(enhanced_units)].value.cargo
                  ELSE VList(<<>>)

\* the value of "cargo"
Cargo(data) ==
    LET c == Get(data, <<"c","a","r","g","o">>, None)
    IN  IF c.t = "list"
        THEN c
        ELSE IF Truthy(c) THEN VList(<<c>>) ELSE VList(<<>>)

\* the dict, had veteran_levels been read from the record like a copied field
enhanced_unit_VeteranFromRecord(unit_id, data) ==
    [id |-> unit_id,
     name |-> VStr(clean_name(Get(data, <<"n","a","m","e">>, VStr(<<>>)).v)),
     attack |-> Get(data, <<"a","t","t","a","c","k">>, VInt(0)),
     defense |-> Get(data, <<"d","e","f","e","n","s","e">>, VInt(0)),
     hitpoints |-> Get(data, <<"h","i","t","p","o","i","n","t","s">>, VInt(10)),
     firepower |-> Get(data, <<"f","i","r","e","p","o","w","e","r">>, VInt(1)),
     move_rate |-> Get(data, <<"m","o","v","e","_","r","a","t","e">>, VInt(1)),
     vision_radius_sq |-> Get(data, <<"v","i","s","i","o","n","_","r","a","d","i","u","s","_","s","q">>, VInt(2)),
     build_cost |-> Get(data, <<"b","u","i","l","d","_","c","o","s","t">>, VInt(10)),
     pop_cost |-> Get(data, <<"p","o","p","_","c","o","s","t">>, VInt(0)),
     uk_happy |-> Get(data, <<"u","k","_","h","a","p","p","y">>, VInt(0)),
     uk_shield |-> Get(data, <<"u","k","_","s","h","i","e","l","d">>, VInt(0)),
     uk_food |-> Get(data, <<"u","k","_","f","o","o","d">>, VInt(0)),
     uk_gold |-> Get(data, <<"u","k","_","g","o","l","d">>, VInt(0)),
     transport_cap |-> Get(data, <<"t","r","a","n","s","p","o","r","t","_","c","a","p">>, VInt(0)),
     fuel |-> Get(data, <<"f","u","e","l">>, VInt(0)),
     unit_class |-> Get(data, <<"c","l","a","s","s">>, VStr(<<"L","a","n","d">>)),
     roles |-> Get(data, <<"r","o","l","e","s">>, VList(<<>>)),
     flags |-> Get(data, <<"f","l","a","g","s">>, VList(<<>>)),
     required_tech |-> get_tech_requirement(data),
     obsolete_by |-> get_obsolete_by(Get(data, <<"o","b","s","o","l","e","t","e","_","b","y">>, None)),
     tp_defense |-> Get(data, <<"t","p","_","d","e","f","e","n","s","e">>, VStr(<<"A","l","i","g","h","t">>)),
     cargo |-> Cargo(data),
     graphic |-> Get(data, <<"g","r","a","p","h","i","c">>, VStr(<<>>)),
     graphic_alt |-> Get(data, <<"g","r","a","p","h","i","c","_","a","l","t">>, VStr(<<"-">>)),
     sound_move |-> Get(data, <<"s","o","u","n","d","_","m","o","v","e">>, VStr(<<>>)),
     sound_fight |-> Get(data, <<"s","o","u","n","d","_","f","i","g","h","t">>, VStr(<<>>)),
     veteran_levels |-> Get(data, <<"v","e","t","e","r","a","n","_","l","e","v","e","l","s">>, VInt(4)),
     veteran_names |-> VList(<<<<"g","r","e","e","n">>, <<"v","e","t","e","r","a","n">>, <<"h","a","r","d","e","n","e","d">>, <<"e","l","i","t","e">>>>),
     veteran_base_raise_chance |-> VList(<<50, 33, 20, 0>>),
     veteran_work_raise_chance |-> VList(<<0, 0, 0, 0>>),
     veteran_power_fact |-> VList(<<100, 150, 175, 200>>),
     veteran_move_bonus |-> VList(<<0, 0, 0, 0>>)]

\* the dict built in the loop over raw_units.items()
enhanced_unit(unit_id, data) ==
    [id |-> unit_id,
     name |-> VStr(clean_name(Get(data, <<"n","a","m","e">>, VStr(<<>>)).v)),
     attack |-> Get(data, <<"a","t","t","a","c","k">>, VInt(0)),
     defense |-> Get(data, <<"d","e","f","e","n","s","e">>, VInt(0)),
     hitpoints |-> Get(data, <<"h","i","t","p","o","i","n","t","s">>, VInt(10)),
     firepower |-> Get(data, <<"f","i","r","e","p","o","w","e","r">>, VInt(1)),
     move_rate |-> Get(data, <<"m","o","v","e","_","r","a","t","e">>, VInt(1)),
     vision_radius_sq |-> Get(data, <<"v","i","s","i","o","n","_","r","a","d","i","u","s","_","s","q">>, VInt(2)),
     build_cost |-> Get(data, <<"b","u","i","l","d","_","c","o","s","t">>, VInt(10)),
     pop_cost |-> Get(data, <<"p","o","p","_","c","o","s","t">>, VInt(0)),
     uk_happy |-> Get(data, <<"u","k","_","h","a","p","p","y">>, VInt(0)),
     uk_shield |-> Get(data, <<"u","k","_","s","h","i","e","l","d">>, VInt(0)),
     uk_food |-> Get(data, <<"u","k","_","f","o","o","d">>, VInt(0)),
     uk_gold |-> Get(data, <<"u","k","_","g","o","l","d">>, VInt(0)),
     transport_cap |-> Get(data, <<"t","r","a","n","s","p","o","r","t","_","c","a","p">>, VInt(0)),
     fuel |-> Get(data, <<"f","u","e","l">>, VInt(0)),
     unit_class |-> Get(data, <<"c","l","a","s","s">>, VStr(<<"L","a","n","d">>)),
     roles |-> Get(data, <<"r","o","l","e","s">>, VList(<<>>)),
     flags |-> Get(data, <<"f","l","a","g","s">>, VList(<<>>)),
     required_tech |-> get_tech_requirement(data),
     obsolete_by |-> get_obsolete_by(Get(data, <<"o","b","s","o","l","e","t","e","_","b","y">>, None)),
     tp_defense |-> Get(data, <<"t","p","_","d","e","f","e","n","s","e">>, VStr(<<"A","l","i","g","h","t">>)),
     cargo |-> Cargo(data),
     graphic |-> Get(data, <<"g","r","a","p","h","i","c">>, VStr(<<>>)),
     graphic_alt |-> Get(data, <<"g","r","a","p","h","i","c","_","a","l","t">>, VStr(<<"-">>)),
     sound_move |-> Get(data, <<"s","o","u","n","d","_","m","o","v","e">>, VStr(<<>>)),
     sound_fight |-> Get(data, <<"s","o","u","n","d","_","f","i","g","h","t">>, VStr(<<>>)),
     veteran_levels |-> VInt(4),
     veteran_names |-> VList(<<<<"g","r","e","e","n">>, <<"v","e","t","e","r","a","n">>, <<"h","a","r","d","e","n","e","d">>, <<"e","l","i","t","e">>>>),
     veteran_base_raise_chance |-> VList(<<50, 33, 20, 0>>),
     veteran_work_raise_chance |-> VList(<<0, 0, 0, 0>>),
     veteran_power_fact |-> VList(<<100, 150, 175, 200>>),
     veteran_move_bonus |-> VList(<<0, 0, 0, 0>>)]

\* the document: its computed parts
FinalStructure(units) ==
    [datafile |-> [format_version |-> 2],
     about |-> [total_units |-> Len(units)],
     units |-> units]

----------------------------------------------------------------------------
(* The run of parse_units.py, then of create_freeciv_units.py on its file. *)

Line(k) == strip(lines[k + 1], Whitespace)

Locals == [unit_data |-> unit_data, in_reqs |-> in_reqs, reqs_buffer |-> reqs_buffer]

\* main: the line is no unit header
MainSkip ==
    /\ pc = "main"
    /\ main_i < Len(lines)
    /\ ~HeaderMatch(lines[main_i + 1]).matched
    /\ main_i' = main_i + 1
    /\ UNCHANGED <<lines, pc, unit_name, units_data, start_idx, i, in_reqs,
                   reqs_buffer, unit_data, consumed>>
    /\ UNCHANGED <<enrich_vars, call_vars>>

\* main: a unit header; parse_unit_section(lines, i) is entered
MainHeader ==
    /\ pc = "main"
    /\ main_i < Len(lines)
    /\ HeaderMatch(lines[main_i + 1]).matched
    /\ unit_name' = HeaderMatch(lines[main_i + 1]).name
    /\ start_idx' = main_i
    /\ i' = main_i + 1
    /\ in_reqs' = FALSE
    /\ reqs_buffer' = <<>>
    /\ unit_data' = EmptyDict
    /\ pc' = "section"
    /\ UNCHANGED <<lines, main_i, units_data, consumed>>
    /\ UNCHANGED <<enrich_vars, call_vars>>

\* one iteration, had i += 1 been in the else branch only: the index stays
\* at a line of a requirements block
SectionLine_StaysAtBlock ==
    /\ pc = "section"
    /\ i < Len(lines)
    /\ ~StopsAtSection(Line(i), i, start_idx)
    /\ LET st == LoopBody(Locals, Line(i))
       IN  /\ unit_data' = st.unit_data
           /\ in_reqs' = st.in_reqs
           /\ reqs_buffer' = st.reqs_buffer
    /\ i' = IF OpensReqs(Line(i)) \/ in_reqs THEN i ELSE i + 1
    /\ consumed' = consumed \cup {<<start_idx, i>>}
    /\ UNCHANGED <<lines, pc, main_i, unit_name, units_data, start_idx>>
    /\ UNCHANGED <<enrich_vars, call_vars>>

\* parse_unit_section: one iteration that does not break
SectionLine ==
    /\ pc = "section"
    /\ i < Len(lines)
    /\ ~StopsAtSection(Line(i), i, start_idx)
    /\ LET st == LoopBody(Locals, Line(i))
       IN  /\ unit_data' = st.unit_data
           /\ in_reqs' = st.in_reqs
           /\ reqs_buffer' = st.reqs_buffer
    /\ i' = i + 1
    /\ consumed' = consumed \cup {<<start_idx, i>>}
    /\ UNCHANGED <<lines, pc, main_i, unit_name, units_data, start_idx>>
    /\ UNCHANGED <<enrich_vars, call_vars>>

\* the return of parse_unit_section to main, which stores the record
Return ==
    /\ units_data' = DictSet(units_data, unit_name, unit_data)
    /\ main_i' = main_i + 1
    /\ pc' = "main"
    /\ UNCHANGED <<lines, unit_name, start_idx, i, in_reqs, reqs_buffer,
                   unit_data, consumed>>
    /\ UNCHANGED <<enrich_vars, call_vars>>

\* parse_unit_section: break at the next section
SectionBreak ==
    /\ pc = "section"
    /\ i < Len(lines)
    /\ StopsAtSection(Line(i), i, start_idx)
    /\ Return

\* parse_unit_section: the end of the input
SectionEnd ==
    /\ pc = "section"
    /\ i >= Len(lines)
    /\ Return

\* main: json.dump(units_data) to the intermediate file
Save ==
    /\ pc = "main"
    /\ main_i >= Len(lines)
    /\ pc' = "saved"
    /\ UNCHANGED <<parser_vars, enrich_vars, call_vars>>

\* create_freeciv_units: json.load of the intermediate file.  The file holds a
\* dict of str keys and of int, str and list values, which json gives back
\* as written, in the order written.
Load ==
    /\ pc = "saved"
    /\ raw_units' = units_data
    /\ pc' = "enrich"
    /\ UNCHANGED <<parser_vars, enhanced_units, final_structure, call_vars>>

\* create_freeciv_units: one iteration of the loop over raw_units.items()
EnrichUnit ==
    /\ pc = "enrich"
    /\ Len(enhanced_units) < Len(raw_units)
    /\ LET e == raw_units[Len(enhanced_units) + 1]
       IN  enhanced_units' = DictSet(enhanced_units, e.key, enhanced_unit(e.key, e.value))
    /\ UNCHANGED <<parser_vars, pc, raw_units, final_structure, call_vars>>

\* create_freeciv_units: the final structure
Finish ==
    /\ pc = "enrich"
    /\ Len(enhanced_units) = Len(raw_units)
    /\ final_structure' = FinalStructure(enhanced_units)
    /\ pc' = "done"
    /\ UNCHANGED <<parser_vars, raw_units, enhanced_units, call_vars>>


----------------------------------------------------------------------------
(* tech_analysis.py: the technology table and the cost of a technology.    *)
(* Of an entry of techs_raw the fields name, req1, req2 and requirements   *)
(* are kept; order, flags, graphic, helptext and bonus_message are copied  *)
(* to the output entry as they are and take no part in the cost, like the  *)
(* catalog ids and the positions of the two other static tables.           *)

\* techs_raw, in the order of the source
techs_raw ==
    <<
      [key |-> <<"a","d","v","a","n","c","e","d","_","f","l","i","g","h","t">>,
       value |-> [name |-> <<"A","d","v","a","n","c","e","d"," ","F","l","i","g","h","t">>, req1 |-> <<"R","a","d","i","o">>, req2 |-> <<"M","a","c","h","i","n","e"," ","T","o","o","l","s">>,
                 requirements |-> <<<<"R","a","d","i","o">>, <<"M","a","c","h","i","n","e"," ","T","o","o","l","s">>>>]],
      [key |-> <<"a","l","p","h","a","b","e","t">>,
       value |-> [name |-> <<"A","l","p","h","a","b","e","t">>, req1 |-> <<"N","o","n","e">>, req2 |-> <<"N","o","n","e">>,
                 requirements |-> <<>>]],
      [key |-> <<"a","m","p","h","i","b","i","o","u","s","_","w","a","r","f","a","r","e">>,
       value |-> [name |-> <<"A","m","p","h","i","b","i","o","u","s"," ","W","a","r","f","a","r","e">>, req1 |-> <<"N","a","v","i","g","a","t","i","o","n">>, req2 |-> <<"T","a","c","t","i","c","s">>,
                 requirements |-> <<<<"N","a","v","i","g","a","t","i","o","n">>, <<"T","a","c","t","i","c","s">>>>]],
      [key |-> <<"a","s","t","r","o","n","o","m","y">>,
       value |-> [name |-> <<"A","s","t","r","o","n","o","m","y">>, req1 |-> <<"M","y","s","t","i","c","i","s","m">>, req2 |-> <<"M","a","t","h","e","m","a","t","i","c","s">>,
                 requirements |-> <<<<"M","y","s","t","i","c","i","s","m">>, <<"M","a","t","h","e","m","a","t","i","c","s">>>>]],
      [key |-> <<"a","t","o","m","i","c","_","t","h","e","o","r","y">>,
       value |-> [name |-> <<"A","t","o","m","i","c"," ","T","h","e","o","r","y">>, req1 |-> <<"T","h","e","o","r","y"," ","o","f"," ","G","r","a","v","i","t","y">>, req2 |-> <<"P","h","y","s","i","c","s">>,
                 requirements |-> <<<<"T","h","e","o","r","y"," ","o","f"," ","G","r","a","v","i","t","y">>, <<"P","h","y","s","i","c","s">>>>]],
      [key |-> <<"a","u","t","o","m","o","b","i","l","e">>,
       value |-> [name |-> <<"A","u","t","o","m","o","b","i","l","e">>, req1 |-> <<"C","o","m","b","u","s","t","i","o","n">>, req2 |-> <<"S","t","e","e","l">>,
                 requirements |-> <<<<"C","o","m","b","u","s","t","i","o","n">>, <<"S","t","e","e","l">>>>]],
      [key |-> <<"b","a","n","k","i","n","g">>,
       value |-> [name |-> <<"B","a","n","k","i","n","g">>, req1 |-> <<"T","r","a","d","e">>, req2 |-> <<"T","h","e"," ","R","e","p","u","b","l","i","c">>,
                 requirements |-> <<<<"T","r","a","d","e">>, <<"T","h","e"," ","R","e","p","u","b","l","i","c">>>>]],
      [key |-> <<"b","r","i","d","g","e","_","b","u","i","l","d","i","n","g">>,
       value |-> [name |-> <<"B","r","i","d","g","e"," ","B","u","i","l","d","i","n","g">>, req1 |-> <<"I","r","o","n"," ","W","o","r","k","i","n","g">>, req2 |-> <<"C","o","n","s","t","r","u","c","t","i","o","n">>,
                 requirements |-> <<<<"I","r","o","n"," ","W","o","r","k","i","n","g">>, <<"C","o","n","s","t","r","u","c","t","i","o","n">>>>]],
      [key |-> <<"b","r","o","n","z","e","_","w","o","r","k","i","n","g">>,
       value |-> [name |-> <<"B","r","o","n","z","e"," ","W","o","r","k","i","n","g">>, req1 |-> <<"N","o","n","e">>, req2 |-> <<"N","o","n","e">>,
                 requirements |-> <<>>]],
      [key |-> <<"c","e","r","e","m","o","n","i","a","l","_","b","u","r","i","a","l">>,
       value |-> [name |-> <<"C","e","r","e","m","o","n","i","a","l"," ","B","u","r","i","a","l">>, req1 |-> <<"N","o","n","e">>, req2 |-> <<"N","o","n","e">>,
                 requirements |-> <<>>]],
      [key |-> <<"c","h","e","m","i","s","t","r","y">>,
       value |-> [name |-> <<"C","h","e","m","i","s","t","r","y">>, req1 |-> <<"U","n","i","v","e","r","s","i","t","y">>, req2 |-> <<"M","e","d","i","c","i","n","e">>,
                 requirements |-> <<<<"U","n","i","v","e","r","s","i","t","y">>, <<"M","e","d","i","c","i","n","e">>>>]],
      [key |-> <<"c","h","i","v","a","l","r","y">>,
       value |-> [name |-> <<"C","h","i","v","a","l","r","y">>, req1 |-> <<"F","e","u","d","a","l","i","s","m">>, req2 |-> <<"H","o","r","s","e","b","a","c","k"," ","R","i","d","i","n","g">>,
                 requirements |-> <<<<"F","e","u","d","a","l","i","s","m">>, <<"H","o","r","s","e","b","a","c","k"," ","R","i","d","i","n","g">>>>]],
      [key |-> <<"c","o","d","e","_","o","f","_","l","a","w","s">>,
       value |-> [name |-> <<"C","o","d","e"," ","o","f"," ","L","a","w","s">>, req1 |-> <<"A","l","p","h","a","b","e","t">>, req2 |-> <<"N","o","n","e">>,
                 requirements |-> <<<<"A","l","p","h","a","b","e","t">>>>]],
      [key |-> <<"c","o","m","b","i","n","e","d","_","a","r","m","s">>,
       value |-> [name |-> <<"C","o","m","b","i","n","e","d"," ","A","r","m","s">>, req1 |-> <<"M","o","b","i","l","e"," ","W","a","r","f","a","r","e">>, req2 |-> <<"A","d","v","a","n","c","e","d"," ","F","l","i","g","h","t">>,
                 requirements |-> <<<<"M","o","b","i","l","e"," ","W","a","r","f","a","r","e">>, <<"A","d","v","a","n","c","e","d"," ","F","l","i","g","h","t">>>>]],
      [key |-> <<"c","o","m","b","u","s","t","i","o","n">>,
       value |-> [name |-> <<"C","o","m","b","u","s","t","i","o","n">>, req1 |-> <<"R","e","f","i","n","i","n","g">>, req2 |-> <<"E","x","p","l","o","s","i","v","e","s">>,
                 requirements |-> <<<<"R","e","f","i","n","i","n","g">>, <<"E","x","p","l","o","s","i","v","e","s">>>>]],
      [key |-> <<"c","o","m","m","u","n","i","s","m">>,
       value |-> [name |-> <<"C","o","m","m","u","n","i","s","m">>, req1 |-> <<"P","h","i","l","o","s","o","p","h","y">>, req2 |-> <<"I","n","d","u","s","t","r","i","a","l","i","z","a","t","i","o","n">>,
                 requirements |-> <<<<"P","h","i","l","o","s","o","p","h","y">>, <<"I","n","d","u","s","t","r","i","a","l","i","z","a","t","i","o","n">>>>]],
      [key |-> <<"c","o","m","p","u","t","e","r","s">>,
       value |-> [name |-> <<"C","o","m","p","u","t","e","r","s">>, req1 |-> <<"M","a","s","s"," ","P","r","o","d","u","c","t","i","o","n">>, req2 |-> <<"M","i","n","i","a","t","u","r","i","z","a","t","i","o","n">>,
                 requirements |-> <<<<"M","a","s","s"," ","P","r","o","d","u","c","t","i","o","n">>, <<"M","i","n","i","a","t","u","r","i","z","a","t","i","o","n">>>>]],
      [key |-> <<"c","o","n","s","c","r","i","p","t","i","o","n">>,
       value |-> [name |-> <<"C","o","n","s","c","r","i","p","t","i","o","n">>, req1 |-> <<"D","e","m","o","c","r","a","c","y">>, req2 |-> <<"M","e","t","a","l","l","u","r","g","y">>,
                 requirements |-> <<<<"D","e","m","o","c","r","a","c","y">>, <<"M","e","t","a","l","l","u","r","g","y">>>>]],
      [key |-> <<"c","o","n","s","t","r","u","c","t","i","o","n">>,
       value |-> [name |-> <<"C","o","n","s","t","r","u","c","t","i","o","n">>, req1 |-> <<"M","a","s","o","n","r","y">>, req2 |-> <<"C","u","r","r","e","n","c","y">>,
                 requirements |-> <<<<"M","a","s","o","n","r","y">>, <<"C","u","r","r","e","n","c","y">>>>]],
      [key |-> <<"c","u","r","r","e","n","c","y">>,
       value |-> [name |-> <<"C","u","r","r","e","n","c","y">>, req1 |-> <<"B","r","o","n","z","e"," ","W","o","r","k","i","n","g">>, req2 |-> <<"N","o","n","e">>,
                 requirements |-> <<<<"B","r","o","n","z","e"," ","W","o","r","k","i","n","g">>>>]],
      [key |-> <<"d","e","m","o","c","r","a","c","y">>,
       value |-> [name |-> <<"D","e","m","o","c","r","a","c","y">>, req1 |-> <<"B","a","n","k","i","n","g">>, req2 |-> <<"I","n","v","e","n","t","i","o","n">>,
                 requirements |-> <<<<"B","a","n","k","i","n","g">>, <<"I","n","v","e","n","t","i","o","n">>>>]],
      [key |-> <<"e","c","o","n","o","m","i","c","s">>,
       value |-> [name |-> <<"E","c","o","n","o","m","i","c","s">>, req1 |-> <<"B","a","n","k","i","n","g">>, req2 |-> <<"U","n","i","v","e","r","s","i","t","y">>,
                 requirements |-> <<<<"B","a","n","k","i","n","g">>, <<"U","n","i","v","e","r","s","i","t","y">>>>]],
      [key |-> <<"e","l","e","c","t","r","i","c","i","t","y">>,
       value |-> [name |-> <<"E","l","e","c","t","r","i","c","i","t","y">>, req1 |-> <<"M","e","t","a","l","l","u","r","g","y">>, req2 |-> <<"M","a","g","n","e","t","i","s","m">>,
                 requirements |-> <<<<"M","e","t","a","l","l","u","r","g","y">>, <<"M","a","g","n","e","t","i","s","m">>>>]],
      [key |-> <<"e","l","e","c","t","r","o","n","i","c","s">>,
       value |-> [name |-> <<"E","l","e","c","t","r","o","n","i","c","s">>, req1 |-> <<"T","h","e"," ","C","o","r","p","o","r","a","t","i","o","n">>, req2 |-> <<"E","l","e","c","t","r","i","c","i","t","y">>,
                 requirements |-> <<<<"T","h","e"," ","C","o","r","p","o","r","a","t","i","o","n">>, <<"E","l","e","c","t","r","i","c","i","t","y">>>>]],
      [key |-> <<"e","n","g","i","n","e","e","r","i","n","g">>,
       value |-> [name |-> <<"E","n","g","i","n","e","e","r","i","n","g">>, req1 |-> <<"T","h","e"," ","W","h","e","e","l">>, req2 |-> <<"C","o","n","s","t","r","u","c","t","i","o","n">>,
                 requirements |-> <<<<"T","h","e"," ","W","h","e","e","l">>, <<"C","o","n","s","t","r","u","c","t","i","o","n">>>>]],
      [key |-> <<"e","n","v","i","r","o","n","m","e","n","t","a","l","i","s","m">>,
       value |-> [name |-> <<"E","n","v","i","r","o","n","m","e","n","t","a","l","i","s","m">>, req1 |-> <<"R","e","c","y","c","l","i","n","g">>, req2 |-> <<"S","p","a","c","e"," ","F","l","i","g","h","t">>,
                 requirements |-> <<<<"R","e","c","y","c","l","i","n","g">>, <<"S","p","a","c","e"," ","F","l","i","g","h","t">>>>]],
      [key |-> <<"e","s","p","i","o","n","a","g","e">>,
       value |-> [name |-> <<"E","s","p","i","o","n","a","g","e">>, req1 |-> <<"C","o","m","m","u","n","i","s","m">>, req2 |-> <<"D","e","m","o","c","r","a","c","y">>,
                 requirements |-> <<<<"C","o","m","m","u","n","i","s","m">>, <<"D","e","m","o","c","r","a","c","y">>>>]],
      [key |-> <<"e","x","p","l","o","s","i","v","e","s">>,
       value |-> [name |-> <<"E","x","p","l","o","s","i","v","e","s">>, req1 |-> <<"G","u","n","p","o","w","d","e","r">>, req2 |-> <<"C","h","e","m","i","s","t","r","y">>,
                 requirements |-> <<<<"G","u","n","p","o","w","d","e","r">>, <<"C","h","e","m","i","s","t","r","y">>>>]],
      [key |-> <<"f","e","u","d","a","l","i","s","m">>,
       value |-> [name |-> <<"F","e","u","d","a","l","i","s","m">>, req1 |-> <<"W","a","r","r","i","o","r"," ","C","o","d","e">>, req2 |-> <<"M","o","n","a","r","c","h","y">>,
                 requirements |-> <<<<"W","a","r","r","i","o","r"," ","C","o","d","e">>, <<"M","o","n","a","r","c","h","y">>>>]],
      [key |-> <<"f","l","i","g","h","t">>,
       value |-> [name |-> <<"F","l","i","g","h","t">>, req1 |-> <<"C","o","m","b","u","s","t","i","o","n">>, req2 |-> <<"T","h","e","o","r","y"," ","o","f"," ","G","r","a","v","i","t","y">>,
                 requirements |-> <<<<"C","o","m","b","u","s","t","i","o","n">>, <<"T","h","e","o","r","y"," ","o","f"," ","G","r","a","v","i","t","y">>>>]],
      [key |-> <<"f","u","s","i","o","n","_","p","o","w","e","r">>,
       value |-> [name |-> <<"F","u","s","i","o","n"," ","P","o","w","e","r">>, req1 |-> <<"N","u","c","l","e","a","r"," ","P","o","w","e","r">>, req2 |-> <<"S","u","p","e","r","c","o","n","d","u","c","t","o","r","s">>,
                 requirements |-> <<<<"N","u","c","l","e","a","r"," ","P","o","w","e","r">>, <<"S","u","p","e","r","c","o","n","d","u","c","t","o","r","s">>>>]],
      [key |-> <<"g","e","n","e","t","i","c","_","e","n","g","i","n","e","e","r","i","n","g">>,
       value |-> [name |-> <<"G","e","n","e","t","i","c"," ","E","n","g","i","n","e","e","r","i","n","g">>, req1 |-> <<"M","e","d","i","c","i","n","e">>, req2 |-> <<"T","h","e"," ","C","o","r","p","o","r","a","t","i","o","n">>,
                 requirements |-> <<<<"M","e","d","i","c","i","n","e">>, <<"T","h","e"," ","C","o","r","p","o","r","a","t","i","o","n">>>>]],
      [key |-> <<"g","u","e","r","i","l","l","a","_","w","a","r","f","a","r","e">>,
       value |-> [name |-> <<"G","u","e","r","i","l","l","a"," ","W","a","r","f","a","r","e">>, req1 |-> <<"C","o","m","m","u","n","i","s","m">>, req2 |-> <<"T","a","c","t","i","c","s">>,
                 requirements |-> <<<<"C","o","m","m","u","n","i","s","m">>, <<"T","a","c","t","i","c","s">>>>]],
      [key |-> <<"g","u","n","p","o","w","d","e","r">>,
       value |-> [name |-> <<"G","u","n","p","o","w","d","e","r">>, req1 |-> <<"I","n","v","e","n","t","i","o","n">>, req2 |-> <<"I","r","o","n"," ","W","o","r","k","i","n","g">>,
                 requirements |-> <<<<"I","n","v","e","n","t","i","o","n">>, <<"I","r","o","n"," ","W","o","r","k","i","n","g">>>>]],
      [key |-> <<"h","o","r","s","e","b","a","c","k","_","r","i","d","i","n","g">>,
       value |-> [name |-> <<"H","o","r","s","e","b","a","c","k"," ","R","i","d","i","n","g">>, req1 |-> <<"N","o","n","e">>, req2 |-> <<"N","o","n","e">>,
                 requirements |-> <<>>]],
      [key |-> <<"i","n","d","u","s","t","r","i","a","l","i","z","a","t","i","o","n">>,
       value |-> [name |-> <<"I","n","d","u","s","t","r","i","a","l","i","z","a","t","i","o","n">>, req1 |-> <<"R","a","i","l","r","o","a","d">>, req2 |-> <<"B","a","n","k","i","n","g">>,
                 requirements |-> <<<<"R","a","i","l","r","o","a","d">>, <<"B","a","n","k","i","n","g">>>>]],
      [key |-> <<"i","n","v","e","n","t","i","o","n">>,
       value |-> [name |-> <<"I","n","v","e","n","t","i","o","n">>, req1 |-> <<"E","n","g","i","n","e","e","r","i","n","g">>, req2 |-> <<"L","i","t","e","r","a","c","y">>,
                 requirements |-> <<<<"E","n","g","i","n","e","e","r","i","n","g">>, <<"L","i","t","e","r","a","c","y">>>>]],
      [key |-> <<"i","r","o","n","_","w","o","r","k","i","n","g">>,
       value |-> [name |-> <<"I","r","o","n"," ","W","o","r","k","i","n","g">>, req1 |-> <<"B","r","o","n","z","e"," ","W","o","r","k","i","n","g">>, req2 |-> <<"W","a","r","r","i","o","r"," ","C","o","d","e">>,
                 requirements |-> <<<<"B","r","o","n","z","e"," ","W","o","r","k","i","n","g">>, <<"W","a","r","r","i","o","r"," ","C","o","d","e">>>>]],
      [key |-> <<"l","a","b","o","r","_","u","n","i","o","n">>,
       value |-> [name |-> <<"L","a","b","o","r"," ","U","n","i","o","n">>, req1 |-> <<"M","a","s","s"," ","P","r","o","d","u","c","t","i","o","n">>, req2 |-> <<"G","u","e","r","i","l","l","a"," ","W","a","r","f","a","r","e">>,
                 requirements |-> <<<<"M","a","s","s"," ","P","r","o","d","u","c","t","i","o","n">>, <<"G","u","e","r","i","l","l","a"," ","W","a","r","f","a","r","e">>>>]],
      [key |-> <<"l","a","s","e","r">>,
       value |-> [name |-> <<"L","a","s","e","r">>, req1 |-> <<"M","a","s","s"," ","P","r","o","d","u","c","t","i","o","n">>, req2 |-> <<"N","u","c","l","e","a","r"," ","P","o","w","e","r">>,
                 requirements |-> <<<<"M","a","s","s"," ","P","r","o","d","u","c","t","i","o","n">>, <<"N","u","c","l","e","a","r"," ","P","o","w","e","r">>>>]],
      [key |-> <<"l","e","a","d","e","r","s","h","i","p">>,
       value |-> [name |-> <<"L","e","a","d","e","r","s","h","i","p">>, req1 |-> <<"C","h","i","v","a","l","r","y">>, req2 |-> <<"G","u","n","p","o","w","d","e","r">>,
                 requirements |-> <<<<"C","h","i","v","a","l","r","y">>, <<"G","u","n","p","o","w","d","e","r">>>>]],
      [key |-> <<"l","i","t","e","r","a","c","y">>,
       value |-> [name |-> <<"L","i","t","e","r","a","c","y">>, req1 |-> <<"W","r","i","t","i","n","g">>, req2 |-> <<"C","o","d","e"," ","o","f"," ","L","a","w","s">>,
                 requirements |-> <<<<"W","r","i","t","i","n","g">>, <<"C","o","d","e"," ","o","f"," ","L","a","w","s">>>>]],
      [key |-> <<"m","a","c","h","i","n","e","_","t","o","o","l","s">>,
       value |-> [name |-> <<"M","a","c","h","i","n","e"," ","T","o","o","l","s">>, req1 |-> <<"S","t","e","e","l">>, req2 |-> <<"T","a","c","t","i","c","s">>,
                 requirements |-> <<<<"S","t","e","e","l">>, <<"T","a","c","t","i","c","s">>>>]],
      [key |-> <<"m","a","g","n","e","t","i","s","m">>,
       value |-> [name |-> <<"M","a","g","n","e","t","i","s","m">>, req1 |-> <<"I","r","o","n"," ","W","o","r","k","i","n","g">>, req2 |-> <<"P","h","y","s","i","c","s">>,
                 requirements |-> <<<<"I","r","o","n"," ","W","o","r","k","i","n","g">>, <<"P","h","y","s","i","c","s">>>>]],
      [key |-> <<"m","a","p","_","m","a","k","i","n","g">>,
       value |-> [name |-> <<"M","a","p"," ","M","a","k","i","n","g">>, req1 |-> <<"A","l","p","h","a","b","e","t">>, req2 |-> <<"N","o","n","e">>,
                 requirements |-> <<<<"A","l","p","h","a","b","e","t">>>>]],
      [key |-> <<"m","a","s","o","n","r","y">>,
       value |-> [name |-> <<"M","a","s","o","n","r","y">>, req1 |-> <<"N","o","n","e">>, req2 |-> <<"N","o","n","e">>,
                 requirements |-> <<>>]],
      [key |-> <<"m","a","s","s","_","p","r","o","d","u","c","t","i","o","n">>,
       value |-> [name |-> <<"M","a","s","s"," ","P","r","o","d","u","c","t","i","o","n">>, req1 |-> <<"A","u","t","o","m","o","b","i","l","e">>, req2 |-> <<"T","h","e"," ","C","o","r","p","o","r","a","t","i","o","n">>,
                 requirements |-> <<<<"A","u","t","o","m","o","b","i","l","e">>, <<"T","h","e"," ","C","o","r","p","o","r","a","t","i","o","n">>>>]],
      [key |-> <<"m","a","t","h","e","m","a","t","i","c","s">>,
       value |-> [name |-> <<"M","a","t","h","e","m","a","t","i","c","s">>, req1 |-> <<"A","l","p","h","a","b","e","t">>, req2 |-> <<"M","a","s","o","n","r","y">>,
                 requirements |-> <<<<"A","l","p","h","a","b","e","t">>, <<"M","a","s","o","n","r","y">>>>]],
      [key |-> <<"m","e","d","i","c","i","n","e">>,
       value |-> [name |-> <<"M","e","d","i","c","i","n","e">>, req1 |-> <<"P","h","i","l","o","s","o","p","h","y">>, req2 |-> <<"T","r","a","d","e">>,
                 requirements |-> <<<<"P","h","i","l","o","s","o","p","h","y">>, <<"T","r","a","d","e">>>>]],
      [key |-> <<"m","e","t","a","l","l","u","r","g","y">>,
       value |-> [name |-> <<"M","e","t","a","l","l","u","r","g","y">>, req1 |-> <<"G","u","n","p","o","w","d","e","r">>, req2 |-> <<"U","n","i","v","e","r","s","i","t","y">>,
                 requirements |-> <<<<"G","u","n","p","o","w","d","e","r">>, <<"U","n","i","v","e","r","s","i","t","y">>>>]],
      [key |-> <<"m","i","n","i","a","t","u","r","i","z","a","t","i","o","n">>,
       value |-> [name |-> <<"M","i","n","i","a","t","u","r","i","z","a","t","i","o","n">>, req1 |-> <<"M","a","c","h","i","n","e"," ","T","o","o","l","s">>, req2 |-> <<"E","l","e","c","t","r","o","n","i","c","s">>,
                 requirements |-> <<<<"M","a","c","h","i","n","e"," ","T","o","o","l","s">>, <<"E","l","e","c","t","r","o","n","i","c","s">>>>]],
      [key |-> <<"m","o","b","i","l","e","_","w","a","r","f","a","r","e">>,
       value |-> [name |-> <<"M","o","b","i","l","e"," ","W","a","r","f","a","r","e">>, req1 |-> <<"A","u","t","o","m","o","b","i","l","e">>, req2 |-> <<"T","a","c","t","i","c","s">>,
                 requirements |-> <<<<"A","u","t","o","m","o","b","i","l","e">>, <<"T","a","c","t","i","c","s">>>>]],
      [key |-> <<"m","o","n","a","r","c","h","y">>,
       value |-> [name |-> <<"M","o","n","a","r","c","h","y">>, req1 |-> <<"C","e","r","e","m","o","n","i","a","l"," ","B","u","r","i","a","l">>, req2 |-> <<"C","o","d","e"," ","o","f"," ","L","a","w","s">>,
                 requirements |-> <<<<"C","e","r","e","m","o","n","i","a","l"," ","B","u","r","i","a","l">>, <<"C","o","d","e"," ","o","f"," ","L","a","w","s">>>>]],
      [key |-> <<"m","o","n","o","t","h","e","i","s","m">>,
       value |-> [name |-> <<"M","o","n","o","t","h","e","i","s","m">>, req1 |-> <<"P","h","i","l","o","s","o","p","h","y">>, req2 |-> <<"P","o","l","y","t","h","e","i","s","m">>,
                 requirements |-> <<<<"P","h","i","l","o","s","o","p","h","y">>, <<"P","o","l","y","t","h","e","i","s","m">>>>]],
      [key |-> <<"m","y","s","t","i","c","i","s","m">>,
       value |-> [name |-> <<"M","y","s","t","i","c","i","s","m">>, req1 |-> <<"C","e","r","e","m","o","n","i","a","l"," ","B","u","r","i","a","l">>, req2 |-> <<"N","o","n","e">>,
                 requirements |-> <<<<"C","e","r","e","m","o","n","i","a","l"," ","B","u","r","i","a","l">>>>]],
      [key |-> <<"n","a","v","i","g","a","t","i","o","n">>,
       value |-> [name |-> <<"N","a","v","i","g","a","t","i","o","n">>, req1 |-> <<"S","e","a","f","a","r","i","n","g">>, req2 |-> <<"A","s","t","r","o","n","o","m","y">>,
                 requirements |-> <<<<"S","e","a","f","a","r","i","n","g">>, <<"A","s","t","r","o","n","o","m","y">>>>]],
      [key |-> <<"n","u","c","l","e","a","r","_","f","i","s","s","i","o","n">>,
       value |-> [name |-> <<"N","u","c","l","e","a","r"," ","F","i","s","s","i","o","n">>, req1 |-> <<"M","a","s","s"," ","P","r","o","d","u","c","t","i","o","n">>, req2 |-> <<"A","t","o","m","i","c"," ","T","h","e","o","r","y">>,
                 requirements |-> <<<<"M","a","s","s"," ","P","r","o","d","u","c","t","i","o","n">>, <<"A","t","o","m","i","c"," ","T","h","e","o","r","y">>>>]],
      [key |-> <<"n","u","c","l","e","a","r","_","p","o","w","e","r">>,
       value |-> [name |-> <<"N","u","c","l","e","a","r"," ","P","o","w","e","r">>, req1 |-> <<"N","u","c","l","e","a","r"," ","F","i","s","s","i","o","n">>, req2 |-> <<"E","l","e","c","t","r","o","n","i","c","s">>,
                 requirements |-> <<<<"N","u","c","l","e","a","r"," ","F","i","s","s","i","o","n">>, <<"E","l","e","c","t","r","o","n","i","c","s">>>>]],
      [key |-> <<"p","h","i","l","o","s","o","p","h","y">>,
       value |-> [name |-> <<"P","h","i","l","o","s","o","p","h","y">>, req1 |-> <<"M","y","s","t","i","c","i","s","m">>, req2 |-> <<"L","i","t","e","r","a","c","y">>,
                 requirements |-> <<<<"M","y","s","t","i","c","i","s","m">>, <<"L","i","t","e","r","a","c","y">>>>]],
      [key |-> <<"p","h","y","s","i","c","s">>,
       value |-> [name |-> <<"P","h","y","s","i","c","s">>, req1 |-> <<"L","i","t","e","r","a","c","y">>, req2 |-> <<"N","a","v","i","g","a","t","i","o","n">>,
                 requirements |-> <<<<"L","i","t","e","r","a","c","y">>, <<"N","a","v","i","g","a","t","i","o","n">>>>]],
      [key |-> <<"p","l","a","s","t","i","c","s">>,
       value |-> [name |-> <<"P","l","a","s","t","i","c","s">>, req1 |-> <<"R","e","f","i","n","i","n","g">>, req2 |-> <<"S","p","a","c","e"," ","F","l","i","g","h","t">>,
                 requirements |-> <<<<"R","e","f","i","n","i","n","g">>, <<"S","p","a","c","e"," ","F","l","i","g","h","t">>>>]],
      [key |-> <<"p","o","l","y","t","h","e","i","s","m">>,
       value |-> [name |-> <<"P","o","l","y","t","h","e","i","s","m">>, req1 |-> <<"H","o","r","s","e","b","a","c","k"," ","R","i","d","i","n","g">>, req2 |-> <<"C","e","r","e","m","o","n","i","a","l"," ","B","u","r","i","a","l">>,
                 requirements |-> <<<<"H","o","r","s","e","b","a","c","k"," ","R","i","d","i","n","g">>, <<"C","e","r","e","m","o","n","i","a","l"," ","B","u","r","i","a","l">>>>]],
      [key |-> <<"p","o","t","t","e","r","y">>,
       value |-> [name |-> <<"P","o","t","t","e","r","y">>, req1 |-> <<"N","o","n","e">>, req2 |-> <<"N","o","n","e">>,
                 requirements |-> <<>>]],
      [key |-> <<"r","a","d","i","o">>,
       value |-> [name |-> <<"R","a","d","i","o">>, req1 |-> <<"F","l","i","g","h","t">>, req2 |-> <<"E","l","e","c","t","r","i","c","i","t","y">>,
                 requirements |-> <<<<"F","l","i","g","h","t">>, <<"E","l","e","c","t","r","i","c","i","t","y">>>>]],
      [key |-> <<"r","a","i","l","r","o","a","d">>,
       value |-> [name |-> <<"R","a","i","l","r","o","a","d">>, req1 |-> <<"S","t","e","a","m"," ","E","n","g","i","n","e">>, req2 |-> <<"B","r","i","d","g","e"," ","B","u","i","l","d","i","n","g">>,
                 requirements |-> <<<<"S","t","e","a","m"," ","E","n","g","i","n","e">>, <<"B","r","i","d","g","e"," ","B","u","i","l","d","i","n","g">>>>]],
      [key |-> <<"r","e","c","y","c","l","i","n","g">>,
       value |-> [name |-> <<"R","e","c","y","c","l","i","n","g">>, req1 |-> <<"M","a","s","s"," ","P","r","o","d","u","c","t","i","o","n">>, req2 |-> <<"D","e","m","o","c","r","a","c","y">>,
                 requirements |-> <<<<"M","a","s","s"," ","P","r","o","d","u","c","t","i","o","n">>, <<"D","e","m","o","c","r","a","c","y">>>>]],
      [key |-> <<"r","e","f","i","n","i","n","g">>,
       value |-> [name |-> <<"R","e","f","i","n","i","n","g">>, req1 |-> <<"C","h","e","m","i","s","t","r","y">>, req2 |-> <<"T","h","e"," ","C","o","r","p","o","r","a","t","i","o","n">>,
                 requirements |-> <<<<"C","h","e","m","i","s","t","r","y">>, <<"T","h","e"," ","C","o","r","p","o","r","a","t","i","o","n">>>>]],
      [key |-> <<"r","e","f","r","i","g","e","r","a","t","i","o","n">>,
       value |-> [name |-> <<"R","e","f","r","i","g","e","r","a","t","i","o","n">>, req1 |-> <<"S","a","n","i","t","a","t","i","o","n">>, req2 |-> <<"E","l","e","c","t","r","i","c","i","t","y">>,
                 requirements |-> <<<<"S","a","n","i","t","a","t","i","o","n">>, <<"E","l","e","c","t","r","i","c","i","t","y">>>>]],
      [key |-> <<"r","o","b","o","t","i","c","s">>,
       value |-> [name |-> <<"R","o","b","o","t","i","c","s">>, req1 |-> <<"M","o","b","i","l","e"," ","W","a","r","f","a","r","e">>, req2 |-> <<"C","o","m","p","u","t","e","r","s">>,
                 requirements |-> <<<<"M","o","b","i","l","e"," ","W","a","r","f","a","r","e">>, <<"C","o","m","p","u","t","e","r","s">>>>]],
      [key |-> <<"r","o","c","k","e","t","r","y">>,
       value |-> [name |-> <<"R","o","c","k","e","t","r","y">>, req1 |-> <<"A","d","v","a","n","c","e","d"," ","F","l","i","g","h","t">>, req2 |-> <<"E","l","e","c","t","r","o","n","i","c","s">>,
                 requirements |-> <<<<"A","d","v","a","n","c","e","d"," ","F","l","i","g","h","t">>, <<"E","l","e","c","t","r","o","n","i","c","s">>>>]],
      [key |-> <<"s","a","n","i","t","a","t","i","o","n">>,
       value |-> [name |-> <<"S","a","n","i","t","a","t","i","o","n">>, req1 |-> <<"E","n","g","i","n","e","e","r","i","n","g">>, req2 |-> <<"M","e","d","i","c","i","n","e">>,
                 requirements |-> <<<<"E","n","g","i","n","e","e","r","i","n","g">>, <<"M","e","d","i","c","i","n","e">>>>]],
      [key |-> <<"s","e","a","f","a","r","i","n","g">>,
       value |-> [name |-> <<"S","e","a","f","a","r","i","n","g">>, req1 |-> <<"P","o","t","t","e","r","y">>, req2 |-> <<"M","a","p"," ","M","a","k","i","n","g">>,
                 requirements |-> <<<<"P","o","t","t","e","r","y">>, <<"M","a","p"," ","M","a","k","i","n","g">>>>]],
      [key |-> <<"s","p","a","c","e","_","f","l","i","g","h","t">>,
       value |-> [name |-> <<"S","p","a","c","e"," ","F","l","i","g","h","t">>, req1 |-> <<"C","o","m","p","u","t","e","r","s">>, req2 |-> <<"R","o","c","k","e","t","r","y">>,
                 requirements |-> <<<<"C","o","m","p","u","t","e","r","s">>, <<"R","o","c","k","e","t","r","y">>>>]],
      [key |-> <<"s","t","e","a","l","t","h">>,
       value |-> [name |-> <<"S","t","e","a","l","t","h">>, req1 |-> <<"S","u","p","e","r","c","o","n","d","u","c","t","o","r","s">>, req2 |-> <<"A","d","v","a","n","c","e","d"," ","F","l","i","g","h","t">>,
                 requirements |-> <<<<"S","u","p","e","r","c","o","n","d","u","c","t","o","r","s">>, <<"A","d","v","a","n","c","e","d"," ","F","l","i","g","h","t">>>>]],
      [key |-> <<"s","t","e","a","m","_","e","n","g","i","n","e">>,
       value |-> [name |-> <<"S","t","e","a","m"," ","E","n","g","i","n","e">>, req1 |-> <<"P","h","y","s","i","c","s">>, req2 |-> <<"I","n","v","e","n","t","i","o","n">>,
                 requirements |-> <<<<"P","h","y","s","i","c","s">>, <<"I","n","v","e","n","t","i","o","n">>>>]],
      [key |-> <<"s","t","e","e","l">>,
       value |-> [name |-> <<"S","t","e","e","l">>, req1 |-> <<"E","l","e","c","t","r","i","c","i","t","y">>, req2 |-> <<"I","n","d","u","s","t","r","i","a","l","i","z","a","t","i","o","n">>,
                 requirements |-> <<<<"E","l","e","c","t","r","i","c","i","t","y">>, <<"I","n","d","u","s","t","r","i","a","l","i","z","a","t","i","o","n">>>>]],
      [key |-> <<"s","u","p","e","r","c","o","n","d","u","c","t","o","r","s">>,
       value |-> [name |-> <<"S","u","p","e","r","c","o","n","d","u","c","t","o","r","s">>, req1 |-> <<"N","u","c","l","e","a","r"," ","P","o","w","e","r">>, req2 |-> <<"L","a","s","e","r">>,
                 requirements |-> <<<<"N","u","c","l","e","a","r"," ","P","o","w","e","r">>, <<"L","a","s","e","r">>>>]],
      [key |-> <<"t","a","c","t","i","c","s">>,
       value |-> [name |-> <<"T","a","c","t","i","c","s">>, req1 |-> <<"C","o","n","s","c","r","i","p","t","i","o","n">>, req2 |-> <<"L","e","a","d","e","r","s","h","i","p">>,
                 requirements |-> <<<<"C","o","n","s","c","r","i","p","t","i","o","n">>, <<"L","e","a","d","e","r","s","h","i","p">>>>]],
      [key |-> <<"t","h","e","_","c","o","r","p","o","r","a","t","i","o","n">>,
       value |-> [name |-> <<"T","h","e"," ","C","o","r","p","o","r","a","t","i","o","n">>, req1 |-> <<"E","c","o","n","o","m","i","c","s">>, req2 |-> <<"I","n","d","u","s","t","r","i","a","l","i","z","a","t","i","o","n">>,
                 requirements |-> <<<<"E","c","o","n","o","m","i","c","s">>, <<"I","n","d","u","s","t","r","i","a","l","i","z","a","t","i","o","n">>>>]],
      [key |-> <<"t","h","e","_","r","e","p","u","b","l","i","c">>,
       value |-> [name |-> <<"T","h","e"," ","R","e","p","u","b","l","i","c">>, req1 |-> <<"C","o","d","e"," ","o","f"," ","L","a","w","s">>, req2 |-> <<"L","i","t","e","r","a","c","y">>,
                 requirements |-> <<<<"C","o","d","e"," ","o","f"," ","L","a","w","s">>, <<"L","i","t","e","r","a","c","y">>>>]],
      [key |-> <<"t","h","e","_","w","h","e","e","l">>,
       value |-> [name |-> <<"T","h","e"," ","W","h","e","e","l">>, req1 |-> <<"H","o","r","s","e","b","a","c","k"," ","R","i","d","i","n","g">>, req2 |-> <<"N","o","n","e">>,
                 requirements |-> <<<<"H","o","r","s","e","b","a","c","k"," ","R","i","d","i","n","g">>>>]],
      [key |-> <<"t","h","e","o","l","o","g","y">>,
       value |-> [name |-> <<"T","h","e","o","l","o","g","y">>, req1 |-> <<"F","e","u","d","a","l","i","s","m">>, req2 |-> <<"M","o","n","o","t","h","e","i","s","m">>,
                 requirements |-> <<<<"F","e","u","d","a","l","i","s","m">>, <<"M","o","n","o","t","h","e","i","s","m">>>>]],
      [key |-> <<"t","h","e","o","r","y","_","o","f","_","g","r","a","v","i","t","y">>,
       value |-> [name |-> <<"T","h","e","o","r","y"," ","o","f"," ","G","r","a","v","i","t","y">>, req1 |-> <<"A","s","t","r","o","n","o","m","y">>, req2 |-> <<"U","n","i","v","e","r","s","i","t","y">>,
                 requirements |-> <<<<"A","s","t","r","o","n","o","m","y">>, <<"U","n","i","v","e","r","s","i","t","y">>>>]],
      [key |-> <<"t","r","a","d","e">>,
       value |-> [name |-> <<"T","r","a","d","e">>, req1 |-> <<"C","u","r","r","e","n","c","y">>, req2 |-> <<"C","o","d","e"," ","o","f"," ","L","a","w","s">>,
                 requirements |-> <<<<"C","u","r","r","e","n","c","y">>, <<"C","o","d","e"," ","o","f"," ","L","a","w","s">>>>]],
      [key |-> <<"u","n","i","v","e","r","s","i","t","y">>,
       value |-> [name |-> <<"U","n","i","v","e","r","s","i","t","y">>, req1 |-> <<"M","a","t","h","e","m","a","t","i","c","s">>, req2 |-> <<"P","h","i","l","o","s","o","p","h","y">>,
                 requirements |-> <<<<"M","a","t","h","e","m","a","t","i","c","s">>, <<"P","h","i","l","o","s","o","p","h","y">>>>]],
      [key |-> <<"w","a","r","r","i","o","r","_","c","o","d","e">>,
       value |-> [name |-> <<"W","a","r","r","i","o","r"," ","C","o","d","e">>, req1 |-> <<"N","o","n","e">>, req2 |-> <<"N","o","n","e">>,
                 requirements |-> <<>>]],
      [key |-> <<"w","r","i","t","i","n","g">>,
       value |-> [name |-> <<"W","r","i","t","i","n","g">>, req1 |-> <<"A","l","p","h","a","b","e","t">>, req2 |-> <<"N","o","n","e">>,
                 requirements |-> <<<<"A","l","p","h","a","b","e","t">>>>]]
    >>

base_tech_cost == 20

min_tech_cost == 10

\* int(base_tech_cost * (1 + n) * math.sqrt(1 + n) / 2): the product is the
\* square root of (base_tech_cost / 2)^2 * (1 + n)^3, which the float
\* arithmetic gives exactly when it is an integer, and int() truncates
IntCost(num_direct_reqs) ==
    LET half == base_tech_cost \div 2
        m == 1 + num_direct_reqs
    IN  CHOOSE r \in 0..(half * m * m) :
            /\ r * r <= half * half * m * m * m
            /\ half * half * m * m * m < (r + 1) * (r + 1)

\* max(a, b)
Max(a, b) == IF a >= b THEN a ELSE b

\* calculate_classic_cost, had it left the square root out of the formula
calculate_classic_cost_Linear(techs, tech_id) ==
    IF tech_id \notin Keys(techs)
    THEN min_tech_cost
    ELSE Max((base_tech_cost * (1 + Len(Lookup(techs, tech_id).requirements))) \div 2,
             min_tech_cost)

\* calculate_classic_cost(tech_id), on the table techs
calculate_classic_cost(techs, tech_id) ==
    IF tech_id \notin Keys(techs)
    THEN min_tech_cost
    ELSE Max(IntCost(Len(Lookup(techs, tech_id).requirements)), min_tech_cost)

\* display_name: the name without its ?tech: prefix
display_name(name) ==
    IF startswith(name, <<"?","t","e","c","h",":">>) THEN SubSeq(name, 7, Len(name)) ELSE name

\* the entry of complete_tech_db for tech_id
tech_entry(techs, tech_id, tech_data) ==
    [id |-> tech_id,
     name |-> display_name(tech_data.name),
     internal_name |-> tech_data.name,
     cost |-> calculate_classic_cost(techs, tech_id),
     req1 |-> tech_data.req1,
     req2 |-> tech_data.req2,
     requirements |-> tech_data.requirements]

----------------------------------------------------------------------------
(* The ruleset texts of the run.                                           *)

\* the longest text of structural lines
MaxLines == 4

\* the longest body of the section of requirements lines
MaxReqLines == 4

SeqsUpTo(S, n) == UNION {[1..k -> S] : k \in 0..n}

\* the concatenation of a sequence of strings
RECURSIVE Concat(_)
Concat(pieces) == IF pieces = <<>> THEN <<>> ELSE Head(pieces) \o Concat(Tail(pieces))

\* section headers, blank lines, key = value lines and a requirements block
StructLines ==
    {<<"[","u","n","i","t","_","a","]">>, <<"[","u","n","i","t","_","b","]">>, <<"[","t","e","r","r","a","i","n","]">>, <<>>, <<"a","t","t","a","c","k"," ","="," ","3">>,
     <<"n","a","m","e"," ","="," ","\"","x","\"">>, <<"r","e","q","s"," ","=">>, <<"\"","T","e","c","h","\"",","," ","\"","A","\"">>, <<"}">>}

\* the lines of requirements blocks
ReqLines ==
    {<<"r","e","q","s">>, <<"r","e","q","s"," ","=">>, <<"{"," ","\"","t","y","p","e","\"",","," ","\"","n","a","m","e","\"",","," ","\"","r","a","n","g","e","\"">>,
     <<"\"","T","e","c","h","\"",","," ","\"","B","r","o","n","z","e"," ","W","o","r","k","i","n","g","\"",","," ","\"","P","l","a","y","e","r","\"">>, <<"\"","T","e","c","h","\"",","," ","\"","A","l","p","h","a","b","e","t","\"",","," ","\"","P","l","a","y","e","r","\"">>,
     <<"}">>, <<"a","t","t","a","c","k"," ","="," ","3">>, <<"[","u","n","i","t","_","b","]">>}

\* key = value lines: every key with every separator and every value
KvKeys == {<<"a","t","t","a","c","k">>, <<"f","l","a","g","s">>, <<"r","o","l","e","s">>, <<"n","a","m","e">>}

KvSeps == {<<"=">>, <<" ","="," ">>, <<"\t","="," "," ">>}

KvValues ==
    {<<"3">>, <<"\"","3","\"">>, <<"\"","\"","3","\"","\"">>, <<"\"","3">>, <<"\""," ","3"," ","\"">>, <<"-","3">>, <<"+","3">>, <<"1","_","0">>, <<"3",".","5">>,
     <<"x">>, <<"\"","x","\"">>, <<>>, <<"\"","\"">>, <<"\"">>, <<"\""," ","\"">>, <<"a","=","b">>, <<"\"","a","\"","=","\"","b","\"">>,
     <<"\"","T","e","r","r","a","i","n","S","p","e","e","d",",","Z","O","C","\"">>, <<"\"","A",","," ","B","\"">>, <<"\"","A",",",",","B","\"">>, <<"\"","A","\"",",","\"","B","\"">>, <<"\"",",","\"">>,
     <<"_","(","\"","W","a","r","r","i","o","r","s","\"",")">>, <<"_","(","\"","?","u","n","i","t",":","W","o","r","k","e","r","s","\"",")">>}

KvLines == {k \o s \o v : k \in KvKeys, s \in KvSeps, v \in KvValues}

StructTexts == SeqsUpTo(StructLines, MaxLines)

ReqTexts == {<<<<"[","u","n","i","t","_","a","]">>>> \o body : body \in SeqsUpTo(ReqLines, MaxReqLines)}

KvTexts ==
    {<<<<"[","u","n","i","t","_","a","]">>, l>> : l \in KvLines}
    \cup {<<<<"[","u","n","i","t","_","a","]">>, <<"d","e","f","e","n","s","e"," ","="," ","1">>, l, <<"f","u","e","l"," ","="," ","x">>>> : l \in KvLines}

\* the longest body of the section of lines for the enrichment
MaxEnrichLines == 2

\* the longest body after a one-line requirements block
MaxAfterLines == 3

\* key = value lines of the keys create_freeciv_units reads, and a block
\* whose opening line holds the requirement
EnrichLines ==
    {<<"o","b","s","o","l","e","t","e","_","b","y"," ","="," ","\"","M","u","s","k","e","t","e","e","r","s","\"">>, <<"o","b","s","o","l","e","t","e","_","b","y"," ","="," ","\"","N","o","n","e","\"">>, <<"o","b","s","o","l","e","t","e","_","b","y"," ","="," ","\"","\"">>,
     <<"o","b","s","o","l","e","t","e","_","b","y"," ","="," ","\"","M","e","c","h","."," ","I","n","f",".","\"">>, <<"c","a","r","g","o"," ","="," ","\"","M","i","s","s","i","l","e","\"">>, <<"c","a","r","g","o"," ","="," ","\"","\"">>,
     <<"c","l","a","s","s"," ","="," ","\"","S","e","a","\"">>, <<"h","i","t","p","o","i","n","t","s"," ","="," ","2","0">>, <<"f","i","r","e","p","o","w","e","r"," ","="," ","x">>,
     <<"v","e","t","e","r","a","n","_","l","e","v","e","l","s"," ","="," ","9">>, <<"v","e","t","e","r","a","n","_","n","a","m","e","s"," ","="," ","\"","a","\"">>, <<"g","r","a","p","h","i","c","_","a","l","t"," ","="," ","\"","u",".","x","\"">>,
     <<"r","e","q","s"," ","="," ","{"," ","\"","T","e","c","h","\"",","," ","\"","N","e","w"," ","T","e","c","h","\"",","," ","\"","P","l","a","y","e","r","\"">>, <<"}">>}

EnrichTexts == {<<<<"[","u","n","i","t","_","a","]">>>> \o body : body \in SeqsUpTo(EnrichLines, MaxEnrichLines)}

\* the lines after a requirements block written on one line
AfterLines == {<<"a","t","t","a","c","k"," ","="," ","3">>, <<"n","a","m","e"," ","="," ","\"","x","\"">>, <<"}">>, <<>>, <<"[","u","n","i","t","_","b","]">>}

OneLineTexts ==
    {<<<<"[","u","n","i","t","_","a","]">>, <<"r","e","q","s"," ","="," ","{"," ","\"","T","e","c","h","\"",","," ","\"","A","l","p","h","a","b","e","t","\"",","," ","\"","P","l","a","y","e","r","\""," ","}">>>> \o body :
        body \in SeqsUpTo(AfterLines, MaxAfterLines)}

\* the longest text of several units
MaxUnitLines == 5

\* headers of three units, a key = value line and a blank line
UnitLines == {<<"[","u","n","i","t","_","a","]">>, <<"[","u","n","i","t","_","b","]">>, <<"[","u","n","i","t","_","c","]">>, <<"c","a","r","g","o"," ","="," ","\"","M","i","s","s","i","l","e","\"">>, <<>>}

UnitTexts == SeqsUpTo(UnitLines, MaxUnitLines)

Texts == StructTexts \cup ReqTexts \cup KvTexts \cup EnrichTexts \cup OneLineTexts
         \cup UnitTexts

\* the variables of a direct call, when there is none
NoCall ==
    /\ fn = "none"
    /\ arg = None
    /\ ret = None

\* the variables of the run, before it starts
NoRun ==
    /\ main_i = 0
    /\ unit_name = <<>>
    /\ units_data = <<>>
    /\ start_idx = 0
    /\ i = 0
    /\ in_reqs = FALSE
    /\ reqs_buffer = <<>>
    /\ unit_data = EmptyDict
    /\ consumed = {}
    /\ raw_units = <<>>
    /\ enhanced_units = <<>>
    /\ final_structure = None

\* a run of the two scripts on one of the texts
InitRun ==
    /\ lines \in Texts
    /\ pc = "main"
    /\ NoRun
    /\ NoCall

----------------------------------------------------------------------------
(* Direct calls of the functions, on arguments no ruleset text need give.  *)
(* A direct call: the state is the function, its argument and, once it has *)
(* returned, its value.                                                    *)

\* the most pieces of a requirements buffer
MaxReqPieces == 4

\* the most pieces of a flags string
MaxFlagPieces == 5

\* the most pieces of a name string
MaxNamePieces == 4

\* the most entries of a reqs list
MaxReqs == 3

ReqPieces ==
    {<<"\"","T","e","c","h","\"",",">>, <<" ">>, <<"\"","A","\"">>, <<"\"","B","r","o","n","z","e"," ","W","o","r","k","i","n","g","\"">>, <<"\"","\"">>, <<"\"">>,
     <<"\"","B","u","i","l","d","i","n","g","\"",",">>, <<"r","e","q","s"," ","="," ","{">>, <<"}">>}

ReqStrings == {Concat(ps) : ps \in SeqsUpTo(ReqPieces, MaxReqPieces)}

FlagPieces == {<<"A">>, <<"B","c">>, <<",">>, <<" ">>, <<"\"">>}

FlagStrings == {Concat(ps) : ps \in SeqsUpTo(FlagPieces, MaxFlagPieces)}

NamePieces == {<<"_","(","\"">>, <<"?","u","n","i","t",":">>, <<"W","o","r","k","e","r","s">>, <<"\"",")">>, <<"\"">>, <<":">>, <<" ","x">>}

NameStrings == {Concat(ps) : ps \in SeqsUpTo(NamePieces, MaxNamePieces)}

ReqEntries ==
    {[type |-> <<"T","e","c","h">>, name |-> <<"B","r","o","n","z","e"," ","W","o","r","k","i","n","g">>, range |-> <<"P","l","a","y","e","r">>],
     [type |-> <<"T","e","c","h">>, name |-> <<"A","l","p","h","a","b","e","t">>, range |-> <<"P","l","a","y","e","r">>],
     [type |-> <<"T","e","c","h">>, name |-> <<"T","h","e","o","r","y"," ","o","f"," ","G","r","a","v","i","t","y">>, range |-> <<"P","l","a","y","e","r">>],
     [type |-> <<"B","u","i","l","d","i","n","g">>, name |-> <<"B","a","r","r","a","c","k","s">>, range |-> <<"C","i","t","y">>],
     [type |-> <<"T","e","c","h">>],
     [name |-> <<"P","o","t","t","e","r","y">>]}

Records ==
    {EmptyDict, Put(EmptyDict, <<"a","t","t","a","c","k">>, VInt(3))}
    \cup {Put(EmptyDict, <<"r","e","q","s">>, VList(rs)) : rs \in SeqsUpTo(ReqEntries, MaxReqs)}

InitCalls ==
    /\ lines = <<>>
    /\ pc = "call"
    /\ NoRun
    /\ ret = None
    /\ \/ fn = "parse_reqs" /\ arg \in ReqStrings
       \/ fn \in {"parse_flags", "parse_roles"} /\ arg \in FlagStrings
       \/ fn = "clean_name" /\ arg \in NameStrings
       \/ fn = "get_tech_requirement" /\ arg \in Records

Call(name, result) ==
    /\ pc = "call"
    /\ fn = name
    /\ ret' = result
    /\ pc' = "returned"
    /\ UNCHANGED <<parser_vars, enrich_vars, fn, arg>>

CallParseReqs == Call("parse_reqs", parse_reqs(arg))

CallParseFlags == Call("parse_flags", parse_flags(arg))

CallParseRoles == Call("parse_roles", parse_roles(arg))

CallCleanName == Call("clean_name", clean_name(arg))

CallGetTechRequirement == Call("get_tech_requirement", get_tech_requirement(arg))


----------------------------------------------------------------------------
(* create_freeciv_units.py run again, calls of its other functions, and    *)
(* tech_analysis.py.                                                       *)

\* create_freeciv_units.py is run once more on the same intermediate file;
\* the document of the run before is the file it left
Rerun ==
    /\ pc = "done"
    /\ raw_units' = <<>>
    /\ enhanced_units' = <<>>
    /\ pc' = "saved"
    /\ UNCHANGED <<parser_vars, final_structure, call_vars>>

\* the most key = value pairs of a record given to enhanced_unit
MaxFields == 2

\* the most requirements of a technology of a made table
MaxTechReqs == 6

\* the keys copied through, each with a value that is not its default
CopiedFields ==
    {<<k, VInt(7)>> : k \in NumericFields}
    \cup {<<<<"h","i","t","p","o","i","n","t","s">>, VInt(0)>>, <<<<"g","r","a","p","h","i","c","_","a","l","t">>, VStr(<<>>)>>}
    \cup {<<<<"a","t","t","a","c","k">>, VStr(<<"x">>)>>, <<<<"c","l","a","s","s">>, VStr(<<"S","e","a">>)>>,
          <<<<"r","o","l","e","s">>, VList(<<<<"C","i","t","i","e","s">>>>)>>, <<<<"f","l","a","g","s">>, VList(<<<<"Z","O","C">>, <<"A">>>>)>>,
          <<<<"t","p","_","d","e","f","e","n","s","e">>, VStr(<<"B","l","o","c","k","e","d">>)>>, <<<<"g","r","a","p","h","i","c">>, VStr(<<"u",".","x">>)>>,
          <<<<"g","r","a","p","h","i","c","_","a","l","t">>, VStr(<<"u",".","y">>)>>, <<<<"s","o","u","n","d","_","m","o","v","e">>, VStr(<<"m","_","x">>)>>,
          <<<<"s","o","u","n","d","_","f","i","g","h","t">>, VStr(<<"f","_","x">>)>>}

\* the keys from which fields are derived, and keys that are not read
DerivedFields ==
    {<<<<"c","a","r","g","o">>, VList(<<<<"M","i","s","s","i","l","e">>, <<"L","a","n","d">>>>)>>, <<<<"c","a","r","g","o">>, VList(<<>>)>>,
     <<<<"c","a","r","g","o">>, VStr(<<"M","i","s","s","i","l","e">>)>>, <<<<"c","a","r","g","o">>, VStr(<<>>)>>,
     <<<<"c","a","r","g","o">>, VInt(0)>>, <<<<"c","a","r","g","o">>, VInt(2)>>,
     <<<<"o","b","s","o","l","e","t","e","_","b","y">>, VStr(<<"M","u","s","k","e","t","e","e","r","s">>)>>, <<<<"o","b","s","o","l","e","t","e","_","b","y">>, VStr(<<"N","o","n","e">>)>>,
     <<<<"o","b","s","o","l","e","t","e","_","b","y">>, VStr(<<>>)>>,
     <<<<"n","a","m","e">>, VStr(<<"_","(","\"","W","a","r","r","i","o","r","s","\"",")">>)>>,
     <<<<"r","e","q","s">>, VList(<<[type |-> <<"T","e","c","h">>, name |-> <<"T","h","e","o","r","y"," ","o","f"," ","G","r","a","v","i","t","y">>,
                          range |-> <<"P","l","a","y","e","r">>]>>)>>,
     <<<<"v","e","t","e","r","a","n","_","l","e","v","e","l","s">>, VInt(9)>>, <<<<"v","e","t","e","r","a","n","_","n","a","m","e","s">>, VList(<<<<"a">>>>)>>,
     <<<<"v","e","t","e","r","a","n","_","p","o","w","e","r","_","f","a","c","t">>, VStr(<<"1">>)>>}

\* the record of a sequence of key = value pairs
RECURSIVE RecordOf(_)
RecordOf(pairs) ==
    IF pairs = <<>>
    THEN EmptyDict
    ELSE Put(RecordOf(SubSeq(pairs, 1, Len(pairs) - 1)),
             pairs[Len(pairs)][1], pairs[Len(pairs)][2])

EnrichRecords == {RecordOf(ps) : ps \in SeqsUpTo(CopiedFields \cup DerivedFields, MaxFields)}

ObsoleteValues ==
    {None, VStr(<<>>), VStr(<<"N","o","n","e">>), VStr(<<"n","o","n","e">>), VStr(<<"M","u","s","k","e","t","e","e","r","s">>),
     VStr(<<"M","e","c","h","."," ","I","n","f",".">>), VStr(<<"A","r","m","o","r"," ","I","I">>), VStr(<<" ">>)}

\* a table of one technology, with n requirements
MadeTechs(n) ==
    <<[key |-> <<"t">>,
       value |-> [name |-> <<"?","t","e","c","h",":","T">>, req1 |-> <<"N","o","n","e">>, req2 |-> <<"N","o","n","e">>,
                  requirements |-> [k \in 1..n |-> <<"r">>]]]>>

TechTables == {techs_raw} \cup {MadeTechs(n) : n \in 0..MaxTechReqs}

\* calls of get_obsolete_by, of the dict display of the loop, and of
\* calculate_classic_cost
InitMoreCalls ==
    /\ lines = <<>>
    /\ pc = "call"
    /\ NoRun
    /\ ret = None
    /\ \/ fn = "get_obsolete_by" /\ arg \in ObsoleteValues
       \/ /\ fn = "enhanced_unit"
          /\ arg \in {[unit_id |-> id, unit_data |-> r] :
                         id \in {<<"a">>, <<"b">>}, r \in EnrichRecords}
       \/ /\ fn = "calculate_classic_cost"
          /\ arg \in UNION {{[techs |-> t, tech_id |-> id] :
                                id \in Keys(t) \cup {<<"u","n","k","n","o","w","n">>}} : t \in TechTables}

\* a run of tech_analysis.py: arg is techs_raw, ret is complete_tech_db
InitTechs ==
    /\ lines = <<>>
    /\ pc = "techs"
    /\ NoRun
    /\ fn = "tech_analysis"
    /\ arg \in TechTables
    /\ ret = <<>>

CallGetObsoleteBy == Call("get_obsolete_by", get_obsolete_by(arg))

CallEnhancedUnit == Call("enhanced_unit", enhanced_unit(arg.unit_id, arg.unit_data))

CallCalculateClassicCost ==
    Call("calculate_classic_cost", calculate_classic_cost(arg.techs, arg.tech_id))

\* tech_analysis: one iteration of the loop over techs_raw.items()
TechEntry ==
    /\ pc = "techs"
    /\ Len(ret) < Len(arg)
    /\ LET e == arg[Len(ret) + 1]
       IN  ret' = DictSet(ret, e.key, tech_entry(arg, e.key, e.value))
    /\ UNCHANGED <<parser_vars, enrich_vars, pc, fn, arg>>

\* tech_analysis: json.dump(complete_tech_db)
TechSave ==
    /\ pc = "techs"
    /\ Len(ret) = Len(arg)
    /\ pc' = "techs_saved"
    /\ UNCHANGED <<parser_vars, enrich_vars, call_vars>>

----------------------------------------------------------------------------
(* parse_unit_section called on its own, from any index of the lines, and   *)
(* run to its return under the fairness of a sequential program: the next  *)
(* step of the loop is always taken.                                       *)

\* the longest text of a call of parse_unit_section
MaxScanLines == 3

\* a unit header, another header, a key = value line, and the two lines of a
\* requirements block
ScanLines == {<<"[","u","n","i","t","_","a","]">>, <<"[","t","e","r","r","a","i","n","]">>, <<"a","=","b">>, <<"r","e","q","s"," ","=">>, <<"}">>}

ScanTexts == SeqsUpTo(ScanLines, MaxScanLines) \ {<<>>}

\* the dict a call returns
VDict(d) == [t |-> "dict", v |-> d]

\* before a call of parse_unit_section
InitSection ==
    /\ lines = <<>>
    /\ pc = "call"
    /\ NoRun
    /\ fn = "parse_unit_section"
    /\ arg = None
    /\ ret = None

\* parse_unit_section(lines, start_idx) is entered, on a text and an index of
\* it: the assignments before the loop
SectionCall ==
    /\ pc = "call"
    /\ fn = "parse_unit_section"
    /\ lines' \in ScanTexts
    /\ start_idx' \in 0..(Len(lines') - 1)
    /\ arg' = [lines |-> lines', start_idx |-> start_idx']
    /\ unit_data' = EmptyDict
    /\ i' = start_idx' + 1
    /\ in_reqs' = FALSE
    /\ reqs_buffer' = <<>>
    /\ pc' = "section"
    /\ UNCHANGED <<main_i, unit_name, units_data, consumed, enrich_vars, fn, ret>>

\* the loop of the call breaks at the next section; the record is returned
SectionCallBreak ==
    /\ pc = "section"
    /\ fn = "parse_unit_section"
    /\ i < Len(lines)
    /\ StopsAtSection(Line(i), i, start_idx)
    /\ pc' = "returned"
    /\ ret' = VDict(unit_data)
    /\ UNCHANGED <<parser_vars, enrich_vars, fn, arg>>

\* the loop of the call ends with the input; the record is returned
SectionCallEnd ==
    /\ pc = "section"
    /\ fn = "parse_unit_section"
    /\ i >= Len(lines)
    /\ pc' = "returned"
    /\ ret' = VDict(unit_data)
    /\ UNCHANGED <<parser_vars, enrich_vars, fn, arg>>

NextSection == SectionCall \/ SectionLine \/ SectionCallBreak \/ SectionCallEnd

SectionSpec == InitSection /\ [][NextSection]_vars /\ WF_vars(NextSection)

\* the scripts are run on a text, or one function is called on an argument,
\* or tech_analysis.py is run
Init == InitRun \/ InitCalls \/ InitMoreCalls \/ InitTechs

Next ==
    \/ MainSkip
    \/ MainHeader
    \/ SectionLine
    \/ SectionBreak
    \/ SectionEnd
    \/ Save
    \/ Load
    \/ EnrichUnit
    \/ Finish
    \/ CallParseReqs
    \/ CallParseFlags
    \/ CallParseRoles
    \/ CallCleanName
    \/ CallGetTechRequirement
    \/ Rerun
    \/ CallGetObsoleteBy
    \/ CallEnhancedUnit
    \/ CallCalculateClassicCost
    \/ TechEntry
    \/ TechSave

Spec == Init /\ [][Next]_vars


----------------------------------------------------------------------------
(* The claims.                                                             *)

\* the stripped line k (0-based) of text begins a bracketed section header
BeginsHeader(text, k) == startswith(strip(text[k + 1], Whitespace), <<"[">>)

\* the lines of text that main takes for unit headers
UnitHeaders(text) == {k \in 0..(Len(text) - 1) : HeaderMatch(text[k + 1]).matched}

\* the index of the first line after s that begins a header, or the length of text
SectionStop(text, s) ==
    LET later == {k \in (s + 1)..(Len(text) - 1) : BeginsHeader(text, k)}
    IN  IF later = {} THEN Len(text) ELSE CHOOSE k \in later : \A j \in later : k <= j

\* the lines of the section whose header is line s
SectionRange(text, s) == (s + 1)..(SectionStop(text, s) - 1)

\* parse_unit_section is about to read line i
AtLine == pc = "section" /\ i < Len(lines)

\* C1: parse_unit_section(lines, s) consumes the lines after the header s only
\* up to, and excluding, the first later line that begins a bracketed section
\* header (or to the end of the input), so no line is consumed for two sections.
C1_ScanStopsAtNextHeader ==
    /\ \A c \in consumed : \A k \in (c[1] + 1)..c[2] : ~BeginsHeader(lines, k)
    /\ \A c, d \in consumed : c[2] = d[2] => c[1] = d[1]

\* what the claim C2 says of a line read while a requirements block is open
AccumulatesLine ==
    LET buffer == reqs_buffer \o <<" ">> \o Line(i)
    IN  IF endswith(Line(i), <<"}">>)
        THEN /\ unit_data' = Put(unit_data, <<"r","e","q","s">>, VList(parse_reqs(buffer)))
             /\ in_reqs' = FALSE
        ELSE /\ reqs_buffer' = buffer
             /\ in_reqs' = TRUE
             /\ unit_data' = unit_data

\* C2 as stated: a line beginning with reqs opens accumulation mode, and while
\* it is open every line read is appended to the buffer and not parsed, the
\* first one ending with } closing the block and storing parse_reqs(buffer)
\* under reqs: accumulation mode goes before every other classification.
C2_AccumulationBeforeAll ==
    [][AtLine =>
          /\ (~in_reqs /\ startswith(Line(i), <<"r","e","q","s">>))
                => (in_reqs' = TRUE /\ reqs_buffer' = Line(i))
          /\ in_reqs => AccumulatesLine]_vars

\* C2 as amended: a line beginning with reqs opens accumulation mode, or
\* restarts the buffer of the open block; while the mode is open every line
\* read that neither begins a section header nor begins with reqs is appended
\* and not parsed, the first such line ending with } closing the block and
\* storing parse_reqs(buffer) under reqs.
C2_Accumulation ==
    [][AtLine =>
          /\ startswith(Line(i), <<"r","e","q","s">>)
                => (in_reqs' = TRUE /\ reqs_buffer' = Line(i) /\ unit_data' = unit_data)
          /\ (in_reqs /\ ~startswith(Line(i), <<"[">>) /\ ~startswith(Line(i), <<"r","e","q","s">>))
                => AccumulatesLine]_vars

\* C2's case: a key = value line inside a block was buffered, and the block closed
C2_Witness ==
    /\ pc = "section"
    /\ lines = <<<<"[","u","n","i","t","_","a","]">>, <<"r","e","q","s"," ","=">>, <<"a","t","t","a","c","k"," ","="," ","3">>,
                 <<"\"","T","e","c","h","\"",","," ","\"","B","r","o","n","z","e"," ","W","o","r","k","i","n","g","\"",","," ","\"","P","l","a","y","e","r","\"">>, <<"}">>>>
    /\ i = 5
    /\ ~in_reqs
    /\ unit_data = Put(EmptyDict, <<"r","e","q","s">>,
                       VList(<<[type |-> <<"T","e","c","h">>, name |-> <<"B","r","o","n","z","e"," ","W","o","r","k","i","n","g">>,
                                range |-> <<"P","l","a","y","e","r">>]>>))

\* The lines k..(stop - 1) of text are blank lines, key = value lines and closed
\* requirements blocks; open says that a block is open before line k.
RECURSIVE WellFormedFrom(_, _, _, _)
WellFormedFrom(text, k, stop, open) ==
    IF k >= stop
    THEN ~open
    ELSE LET line == strip(text[k + 1], Whitespace)
         IN  IF open
             THEN /\ ~startswith(line, <<"r","e","q","s">>)
                  /\ WellFormedFrom(text, k + 1, stop, ~endswith(line, <<"}">>))
             ELSE IF startswith(line, <<"r","e","q","s">>)
                  THEN WellFormedFrom(text, k + 1, stop, TRUE)
                  ELSE /\ line = <<>> \/ "=" \in Range(line)
                       /\ WellFormedFrom(text, k + 1, stop, FALSE)

\* a text made of well-formed unit sections, each with a name of its own
WellFormedText(text) ==
    /\ text # <<>>
    /\ \A k \in 0..(Len(text) - 1) : BeginsHeader(text, k) <=> k \in UnitHeaders(text)
    /\ 0 \in UnitHeaders(text)
    /\ \A s, t \in UnitHeaders(text) :
          HeaderMatch(text[s + 1]).name = HeaderMatch(text[t + 1]).name => s = t
    /\ \A s \in UnitHeaders(text) :
          WellFormedFrom(text, s + 1, SectionStop(text, s), FALSE)

\* the keys of the key = value lines of k..(stop - 1), and reqs for a block
RECURSIVE SectionKeys(_, _, _, _)
SectionKeys(text, k, stop, open) ==
    IF k >= stop
    THEN {}
    ELSE LET line == strip(text[k + 1], Whitespace)
         IN  IF open
             THEN SectionKeys(text, k + 1, stop, ~endswith(line, <<"}">>))
             ELSE IF startswith(line, <<"r","e","q","s">>)
                  THEN {<<"r","e","q","s">>} \cup SectionKeys(text, k + 1, stop, TRUE)
                  ELSE (IF "=" \in Range(line)
                        THEN {strip(SubSeq(line, 1, find(line, "=", 1) - 1), Whitespace)}
                        ELSE {})
                       \cup SectionKeys(text, k + 1, stop, FALSE)

\* C3: for a text made of well-formed unit sections the parser yields one
\* record per section, whose keys are the keys of the key = value lines of the
\* section, and reqs if and only if the section holds a requirements block.
C3_RecordKeys ==
    (pc = "saved" /\ WellFormedText(lines)) =>
        /\ Len(units_data) = Cardinality(UnitHeaders(lines))
        /\ \A s \in UnitHeaders(lines) :
              LET name == HeaderMatch(lines[s + 1]).name
              IN  /\ name \in Keys(units_data)
                  /\ DOMAIN Lookup(units_data, name)
                        = SectionKeys(lines, s + 1, SectionStop(lines, s), FALSE)

\* the places of s where "Tech", stands
TechPlaces(s) == {p \in 1..(Len(s) - 6) : SubSeq(s, p, p + 6) = <<"\"","T","e","c","h","\"",",">>}

\* the places a where a name opens after the "Tech", of place p: whitespace
\* only between the comma and the double quote before a
NameStarts(s, p) ==
    {a \in (p + 8)..Len(s) :
        /\ s[a - 1] = Quote
        /\ \A k \in (p + 7)..(a - 2) : s[k] \in Whitespace}

\* the places b where the name opened at a closes: no double quote in a..b,
\* and one after b
NameEnds(s, a) ==
    {b \in a..(Len(s) - 1) :
        /\ s[b + 1] = Quote
        /\ \A k \in a..b : s[k] # Quote}

\* the occurrences <<p, N>> of the pattern "Tech", "N" in s
Occurrences(s) ==
    UNION {UNION {{<<p, SubSeq(s, a, b)>> : b \in NameEnds(s, a)} : a \in NameStarts(s, p)}
              : p \in TechPlaces(s)}

\* C4: parse_reqs returns the one requirement Tech, N, Player for the name N
\* of the first "Tech", "N" of the buffer, and the empty list when there is
\* none or the buffer is empty; never more than one element.
C4_ParseReqs ==
    (pc = "returned" /\ fn = "parse_reqs") =>
        LET found == Occurrences(arg)
        IN  /\ Len(ret) <= 1
            /\ found = {} => ret = <<>>
            /\ \A f \in found :
                  (\A g \in found : f[1] <= g[1]) =>
                      ret = <<[type |-> <<"T","e","c","h">>, name |-> f[2], range |-> <<"P","l","a","y","e","r">>]>>

\* C4's case: two Tech patterns, the first one is returned
C4_Witness ==
    /\ pc = "returned"
    /\ fn = "parse_reqs"
    /\ arg = <<"\"","T","e","c","h","\"",",","\"","A","\"","\"","T","e","c","h","\"",",","\"","B","r","o","n","z","e"," ","W","o","r","k","i","n","g","\"">>
    /\ ret = <<[type |-> <<"T","e","c","h">>, name |-> <<"A">>, range |-> <<"P","l","a","y","e","r">>]>>

\* the requirements block of C5 for the name: the lines k.. of text are reqs
\* (or reqs =), the column header (or not), the row of the name, and }
BlockAt(text, k, row) ==
    /\ text[k + 1] \in {<<"r","e","q","s">>, <<"r","e","q","s"," ","=">>}
    /\ \/ /\ k + 3 < Len(text)
          /\ text[k + 2] = <<"{"," ","\"","t","y","p","e","\"",","," ","\"","n","a","m","e","\"",","," ","\"","r","a","n","g","e","\"">>
          /\ text[k + 3] = row
          /\ text[k + 4] = <<"}">>
       \/ /\ k + 2 < Len(text)
          /\ text[k + 2] = row
          /\ text[k + 3] = <<"}">>

\* the section of header s holds the block of the row, and no other line that
\* begins with reqs; no other section has the name of s
HasBlock(text, s, row) ==
    /\ \E k \in SectionRange(text, s) :
          /\ BlockAt(text, k, row)
          /\ k + 2 \in SectionRange(text, s)
          /\ \A j \in SectionRange(text, s) \ {k} :
                ~startswith(strip(text[j + 1], Whitespace), <<"r","e","q","s">>)
    /\ \A t \in UnitHeaders(text) \ {s} :
          HeaderMatch(text[t + 1]).name # HeaderMatch(text[s + 1]).name

\* the record of the unit has the requirement, and the enriched unit the technology
Requires(name, tech, required_tech) ==
    /\ name \in Keys(units_data)
    /\ <<"r","e","q","s">> \in DOMAIN Lookup(units_data, name)
    /\ Lookup(units_data, name)[<<"r","e","q","s">>]
          = VList(<<[type |-> <<"T","e","c","h">>, name |-> tech, range |-> <<"P","l","a","y","e","r">>]>>)
    /\ name \in Keys(enhanced_units)
    /\ Lookup(enhanced_units, name).required_tech = VStr(required_tech)

\* C5: a section whose requirements block is reqs, the column header, the row
\* "Tech", "Bronze Working", "Player" and } gives the record the one requirement
\* Tech, Bronze Working, Player and the unit required_tech bronze_working; a row
\* of another name gives the resolution of that name.
C5_EndToEnd ==
    pc = "done" =>
        \A s \in UnitHeaders(lines) :
            /\ HasBlock(lines, s, <<"\"","T","e","c","h","\"",","," ","\"","B","r","o","n","z","e"," ","W","o","r","k","i","n","g","\"",","," ","\"","P","l","a","y","e","r","\"">>)
                  => Requires(HeaderMatch(lines[s + 1]).name,
                              <<"B","r","o","n","z","e"," ","W","o","r","k","i","n","g">>, <<"b","r","o","n","z","e","_","w","o","r","k","i","n","g">>)
            /\ HasBlock(lines, s, <<"\"","T","e","c","h","\"",","," ","\"","A","l","p","h","a","b","e","t","\"",","," ","\"","P","l","a","y","e","r","\"">>)
                  => Requires(HeaderMatch(lines[s + 1]).name,
                              <<"A","l","p","h","a","b","e","t">>, <<"a","l","p","h","a","b","e","t">>)

\* C5's case: the scenario of the claim, run to the end
C5_Witness ==
    /\ pc = "done"
    /\ lines = <<<<"[","u","n","i","t","_","a","]">>, <<"r","e","q","s">>, <<"{"," ","\"","t","y","p","e","\"",","," ","\"","n","a","m","e","\"",","," ","\"","r","a","n","g","e","\"">>,
                 <<"\"","T","e","c","h","\"",","," ","\"","B","r","o","n","z","e"," ","W","o","r","k","i","n","g","\"",","," ","\"","P","l","a","y","e","r","\"">>, <<"}">>>>
    /\ Requires(<<"a">>, <<"B","r","o","n","z","e"," ","W","o","r","k","i","n","g">>, <<"b","r","o","n","z","e","_","w","o","r","k","i","n","g">>)

\* parse_unit_section is about to read a key = value line, no block being open
AtKeyValue ==
    /\ AtLine
    /\ ~in_reqs
    /\ ~startswith(Line(i), <<"[">>)
    /\ ~startswith(Line(i), <<"r","e","q","s">>)
    /\ "=" \in Range(Line(i))

\* the text right of the first = of line
RightOf(line) == SubSeq(line, find(line, "=", 1) + 1, Len(line))

\* C6: a key = value line of a numeric field stores the integer its
\* quote-stripped value denotes (attack = "3" stores the integer 3), and the
\* quote-stripped string when it denotes none; the scan goes on with the next
\* line, the other keys of the record are kept, and a key outside the numeric
\* fields is never stored as an integer.
C6_NumericCoercion ==
    [][AtKeyValue =>
          LET key == KeyOf(Line(i))
              value == ValueOf(Line(i))
          IN  /\ pc' = "section"
              /\ i' = i + 1
              /\ DOMAIN unit_data' = DOMAIN unit_data \cup {key}
              /\ \A k \in DOMAIN unit_data \ {key} : unit_data'[k] = unit_data[k]
              /\ key \in NumericFields =>
                    unit_data'[key] = IF IsIntLiteral(value)
                                      THEN VInt(IntValue(value))
                                      ELSE VStr(value)
              /\ key \notin NumericFields => unit_data'[key].t # "int"
              /\ Line(i) = <<"a","t","t","a","c","k"," ","="," ","\"","3","\"">> => unit_data'[key] = VInt(3)
              /\ Line(i) = <<"a","t","t","a","c","k"," ","="," ","3",".","5">> => unit_data'[key] = VStr(<<"3",".","5">>)]_vars

\* C6's case: a coercion failed between two numeric fields, and after it
C6_Witness ==
    /\ pc = "section"
    /\ lines = <<<<"[","u","n","i","t","_","a","]">>, <<"d","e","f","e","n","s","e"," ","="," ","1">>, <<"a","t","t","a","c","k"," ","="," ","3",".","5">>, <<"f","u","e","l"," ","="," ","x">>>>
    /\ i = 4
    /\ unit_data = Put(Put(Put(EmptyDict, <<"d","e","f","e","n","s","e">>, VInt(1)),
                           <<"a","t","t","a","c","k">>, VStr(<<"3",".","5">>)),
                       <<"f","u","e","l">>, VStr(<<"x">>))

\* the pieces of s between its commas, in order
Pieces(s) ==
    LET commas == {p \in 1..Len(s) : s[p] = ","}
        Comma(k) == CHOOSE p \in commas : Cardinality({q \in commas : q < p}) = k - 1
        n == Cardinality(commas) + 1
    IN  [k \in 1..n |-> SubSeq(s, IF k = 1 THEN 1 ELSE Comma(k - 1) + 1,
                                  IF k = n THEN Len(s) ELSE Comma(k) - 1)]

NonBlank(x) == \E k \in 1..Len(x) : x[k] \notin Whitespace

\* the tokens of a flags or roles value: its pieces that are not blank, each
\* trimmed of whitespace and stripped of double quotes
Tokens(value) ==
    LET inner == strip(strip(value, {Quote}), Whitespace)
        kept == SelectSeq(Pieces(inner), NonBlank)
    IN  [k \in 1..Len(kept) |-> strip(strip(kept[k], Whitespace), {Quote})]

\* the line read before line i was a key = value line, read with no block open
AfterKeyValue ==
    /\ pc = "section"
    /\ i >= start_idx + 2
    /\ ~in_reqs
    /\ ~startswith(Line(i - 1), <<"[">>)
    /\ ~startswith(Line(i - 1), <<"r","e","q","s">>)
    /\ ~endswith(Line(i - 1), <<"}">>)
    /\ "=" \in Range(Line(i - 1))

\* C7: a flags or roles line stores the list, in source order, of the tokens of
\* its value (flags = "TerrainSpeed,ZOC" stores TerrainSpeed, ZOC), a value that
\* is empty or made of double quotes only stores the empty list, and
\* parse_flags and parse_roles are one function, which gives the tokens of a
\* trimmed value.
C7_TokenLists ==
    /\ (pc = "returned" /\ fn \in {"parse_flags", "parse_roles"}) =>
          /\ arg = strip(arg, Whitespace) => ret = Tokens(arg)
          /\ Range(arg) \subseteq {Quote} => ret = <<>>
          /\ parse_flags(arg) = parse_roles(arg)
    /\ (AfterKeyValue /\ KeyOf(Line(i - 1)) \in {<<"f","l","a","g","s">>, <<"r","o","l","e","s">>}) =>
          LET key == KeyOf(Line(i - 1))
              value == strip(RightOf(Line(i - 1)), Whitespace)
          IN  /\ unit_data[key] = VList(Tokens(value))
              /\ Range(value) \subseteq {Quote} => unit_data[key] = VList(<<>>)
              /\ value = <<"\"","T","e","r","r","a","i","n","S","p","e","e","d",",","Z","O","C","\"">>
                    => unit_data[key] = VList(<<<<"T","e","r","r","a","i","n","S","p","e","e","d">>, <<"Z","O","C">>>>)

\* C7's case: the flags line of the claim was read
C7_Witness ==
    /\ pc = "section"
    /\ lines = <<<<"[","u","n","i","t","_","a","]">>, <<"f","l","a","g","s"," ","="," ","\"","T","e","r","r","a","i","n","S","p","e","e","d",",","Z","O","C","\"">>>>
    /\ i = 2
    /\ unit_data = Put(EmptyDict, <<"f","l","a","g","s">>, VList(<<<<"T","e","r","r","a","i","n","S","p","e","e","d">>, <<"Z","O","C">>>>))

\* the value with one layer of surrounding double quotes removed: one double
\* quote at its start, if it has one, and one at its end
OneLayer(value) ==
    LET rest == IF value # <<>> /\ Head(value) = Quote THEN Tail(value) ELSE value
    IN  IF rest # <<>> /\ rest[Len(rest)] = Quote
        THEN SubSeq(rest, 1, Len(rest) - 1)
        ELSE rest

\* the text without its blank lines
NoBlankLines(text) == SelectSeq(text, NonBlank)

\* the number of blank lines of text before line s
BlanksBefore(text, s) == Cardinality({k \in 0..(s - 1) : ~NonBlank(text[k + 1])})

\* C8: a key = value line is split at its first = only, the trimmed left side
\* is the key, and the value is the trimmed right side with exactly one layer
\* of surrounding double quotes removed; blank lines are inert: the record of a
\* section is the record of the section without its blank lines.
C8_SplitAndBlankLines ==
    /\ AfterKeyValue =>
          LET line == Line(i - 1)
              key == strip(SubSeq(line, 1, find(line, "=", 1) - 1), Whitespace)
              value == OneLayer(strip(RightOf(line), Whitespace))
          IN  /\ key \in DOMAIN unit_data
              /\ unit_data[key] = Convert(key, value)
    /\ pc = "saved" =>
          \A s \in UnitHeaders(lines) :
              (\A t \in UnitHeaders(lines) :
                  HeaderMatch(lines[t + 1]).name = HeaderMatch(lines[s + 1]).name => t = s)
              => Lookup(units_data, HeaderMatch(lines[s + 1]).name)
                    = parse_unit_section(NoBlankLines(lines), s - BlanksBefore(lines, s))

\* name_str is _(" and ") around an inner text
Wrapped(name_str) ==
    /\ Len(name_str) >= 5
    /\ startswith(name_str, <<"_","(","\"">>)
    /\ endswith(name_str, <<"\"",")">>)

Inner(name_str) == SubSeq(name_str, 4, Len(name_str) - 2)

AfterColon(inner) == SubSeq(inner, find(inner, ":", 1) + 1, Len(inner))

\* the disambiguated form _("?context:text")
ContextForm(name_str) ==
    /\ Wrapped(name_str)
    /\ Quote \notin Range(Inner(name_str))
    /\ Inner(name_str) # <<>>
    /\ Inner(name_str)[1] = "?"
    /\ ":" \in Range(Inner(name_str))
    /\ AfterColon(Inner(name_str)) # <<>>

\* the plain form _("text")
PlainForm(name_str) ==
    /\ Wrapped(name_str)
    /\ Quote \notin Range(Inner(name_str))
    /\ Inner(name_str) # <<>>
    /\ ~ContextForm(name_str)

\* C9: clean_name returns text for _("text"), and for _("?context:text") the
\* text after the colon; a string of neither form is returned with its
\* surrounding double quotes stripped and nothing else changed.
C9_CleanName ==
    (pc = "returned" /\ fn = "clean_name") =>
        /\ PlainForm(arg) => ret = Inner(arg)
        /\ ContextForm(arg) => ret = AfterColon(Inner(arg))
        /\ ~startswith(arg, <<"_","(","\"">>) => ret = strip(arg, {Quote})

\* the canonical form of a display name: lower case, a _ for every space
IsCanonicalOf(id, name) ==
    /\ Len(id) = Len(name)
    /\ \A k \in 1..Len(name) : id[k] = IF name[k] = " " THEN "_" ELSE LowerChar(name[k])

\* the places of the entries of reqs of type Tech
TechEntries(reqs) == {k \in 1..Len(reqs) : "type" \in DOMAIN reqs[k] /\ reqs[k]["type"] = <<"T","e","c","h">>}

\* C10: get_tech_requirement returns, for the first entry of reqs of type Tech,
\* the value of tech_mappings for its name when the table has it and else the
\* name in lower case with _ for every space; it returns None when reqs is
\* absent, empty or without an entry of type Tech; entries after the first
\* Tech entry do not count.
C10_TechRequirement ==
    (pc = "returned" /\ fn = "get_tech_requirement") =>
        LET reqs == IF <<"r","e","q","s">> \in DOMAIN arg THEN arg[<<"r","e","q","s">>].v ELSE <<>>
            techs == TechEntries(reqs)
        IN  /\ techs = {} => ret = None
            /\ \A k \in techs :
                  ((\A j \in techs : k <= j) /\ "name" \in DOMAIN reqs[k]) =>
                      /\ ret.t = "str"
                      /\ reqs[k]["name"] \in DOMAIN tech_mappings
                            => ret.v = tech_mappings[reqs[k]["name"]]
                      /\ reqs[k]["name"] \notin DOMAIN tech_mappings
                            => IsCanonicalOf(ret.v, reqs[k]["name"])
                      /\ reqs[k]["name"] = <<"B","r","o","n","z","e"," ","W","o","r","k","i","n","g">> => ret.v = <<"b","r","o","n","z","e","_","w","o","r","k","i","n","g">>
                      /\ reqs[k]["name"] = <<"T","h","e","o","r","y"," ","o","f"," ","G","r","a","v","i","t","y">>
                            => ret.v = <<"t","h","e","o","r","y","_","o","f","_","g","r","a","v","i","t","y">>

\* C10's case: a Building entry, then two Tech entries; the first Tech entry decides
C10_Witness ==
    /\ pc = "returned"
    /\ fn = "get_tech_requirement"
    /\ arg = Put(EmptyDict, <<"r","e","q","s">>,
                 VList(<<[type |-> <<"B","u","i","l","d","i","n","g">>, name |-> <<"B","a","r","r","a","c","k","s">>, range |-> <<"C","i","t","y">>],
                         [type |-> <<"T","e","c","h">>, name |-> <<"T","h","e","o","r","y"," ","o","f"," ","G","r","a","v","i","t","y">>, range |-> <<"P","l","a","y","e","r">>],
                         [type |-> <<"T","e","c","h">>, name |-> <<"A","l","p","h","a","b","e","t">>, range |-> <<"P","l","a","y","e","r">>]>>))
    /\ ret = VStr(<<"t","h","e","o","r","y","_","o","f","_","g","r","a","v","i","t","y">>)


\* the value get_obsolete_by is given for the record: unit_data.get("obsolete_by")
ObsoleteOf(data) == Get(data, <<"o","b","s","o","l","e","t","e","_","b","y">>, None)

\* what the claim C11 says of the result for the value given: None for no
\* value and for "None", the canonical form for every other string
ObsoleteAsStated(value, result) ==
    IF value = None \/ value = VStr(<<"N","o","n","e">>)
    THEN result = None
    ELSE value.t = "str" => (result.t = "str" /\ IsCanonicalOf(result.v, value.v))

\* the same, with the empty string among the values that give None
ObsoleteAsAmended(value, result) ==
    IF value = None \/ value = VStr(<<"N","o","n","e">>) \/ value = VStr(<<>>)
    THEN result = None
    ELSE value.t = "str" => (result.t = "str" /\ IsCanonicalOf(result.v, value.v))

\* C11 as stated: obsolete_by of the enriched unit is None when the record has
\* no obsolete_by or has the string None, and for every other string it is
\* the string in lower case with _ for every space.
C11_ObsoleteByAnyString ==
    /\ (pc = "returned" /\ fn = "get_obsolete_by") => ObsoleteAsStated(arg, ret)
    /\ (pc = "returned" /\ fn = "enhanced_unit")
          => ObsoleteAsStated(ObsoleteOf(arg.unit_data), ret.obsolete_by)
    /\ \A k \in 1..Len(enhanced_units) :
          ObsoleteAsStated(ObsoleteOf(Lookup(raw_units, enhanced_units[k].key)),
                           enhanced_units[k].value.obsolete_by)

\* C11 as amended: obsolete_by of the enriched unit is None when the record has
\* no obsolete_by, the empty string or the string None, and for every other
\* string it is the string in lower case with _ for every space
\* (Musketeers gives musketeers).
C11_ObsoleteBy ==
    /\ (pc = "returned" /\ fn = "get_obsolete_by") =>
          /\ ObsoleteAsAmended(arg, ret)
          /\ arg = VStr(<<"M","u","s","k","e","t","e","e","r","s">>) => ret = VStr(<<"m","u","s","k","e","t","e","e","r","s">>)
    /\ (pc = "returned" /\ fn = "enhanced_unit")
          => ObsoleteAsAmended(ObsoleteOf(arg.unit_data), ret.obsolete_by)
    /\ \A k \in 1..Len(enhanced_units) :
          ObsoleteAsAmended(ObsoleteOf(Lookup(raw_units, enhanced_units[k].key)),
                            enhanced_units[k].value.obsolete_by)

\* C11's case: a unit of the run with a sentinel, after one with a name
C11_Witness ==
    /\ pc = "done"
    /\ lines = <<<<"[","u","n","i","t","_","a","]">>, <<"o","b","s","o","l","e","t","e","_","b","y"," ","="," ","\"","M","e","c","h","."," ","I","n","f",".","\"">>, <<"o","b","s","o","l","e","t","e","_","b","y"," ","="," ","\"","N","o","n","e","\"">>>>
    /\ Lookup(enhanced_units, <<"a">>).obsolete_by = None


\* the fields of an enriched unit
SchemaFields ==
    {"id", "name", "attack", "defense", "hitpoints", "firepower", "move_rate",
     "vision_radius_sq", "build_cost", "pop_cost", "uk_happy", "uk_shield",
     "uk_food", "uk_gold", "transport_cap", "fuel", "unit_class", "roles",
     "flags", "required_tech", "obsolete_by", "tp_defense", "cargo", "graphic",
     "graphic_alt", "sound_move", "sound_fight", "veteran_levels",
     "veteran_names", "veteran_base_raise_chance", "veteran_work_raise_chance",
     "veteran_power_fact", "veteran_move_bonus"}

\* the fields copied through: the field, the key of the record, the default
CopiedDefaults ==
    {[field |-> "attack", key |-> <<"a","t","t","a","c","k">>, default |-> VInt(0)],
     [field |-> "defense", key |-> <<"d","e","f","e","n","s","e">>, default |-> VInt(0)],
     [field |-> "hitpoints", key |-> <<"h","i","t","p","o","i","n","t","s">>, default |-> VInt(10)],
     [field |-> "firepower", key |-> <<"f","i","r","e","p","o","w","e","r">>, default |-> VInt(1)],
     [field |-> "move_rate", key |-> <<"m","o","v","e","_","r","a","t","e">>, default |-> VInt(1)],
     [field |-> "vision_radius_sq", key |-> <<"v","i","s","i","o","n","_","r","a","d","i","u","s","_","s","q">>, default |-> VInt(2)],
     [field |-> "build_cost", key |-> <<"b","u","i","l","d","_","c","o","s","t">>, default |-> VInt(10)],
     [field |-> "pop_cost", key |-> <<"p","o","p","_","c","o","s","t">>, default |-> VInt(0)],
     [field |-> "uk_happy", key |-> <<"u","k","_","h","a","p","p","y">>, default |-> VInt(0)],
     [field |-> "uk_shield", key |-> <<"u","k","_","s","h","i","e","l","d">>, default |-> VInt(0)],
     [field |-> "uk_food", key |-> <<"u","k","_","f","o","o","d">>, default |-> VInt(0)],
     [field |-> "uk_gold", key |-> <<"u","k","_","g","o","l","d">>, default |-> VInt(0)],
     [field |-> "transport_cap", key |-> <<"t","r","a","n","s","p","o","r","t","_","c","a","p">>, default |-> VInt(0)],
     [field |-> "fuel", key |-> <<"f","u","e","l">>, default |-> VInt(0)],
     [field |-> "unit_class", key |-> <<"c","l","a","s","s">>, default |-> VStr(<<"L","a","n","d">>)],
     [field |-> "roles", key |-> <<"r","o","l","e","s">>, default |-> VList(<<>>)],
     [field |-> "flags", key |-> <<"f","l","a","g","s">>, default |-> VList(<<>>)],
     [field |-> "tp_defense", key |-> <<"t","p","_","d","e","f","e","n","s","e">>, default |-> VStr(<<"A","l","i","g","h","t">>)],
     [field |-> "graphic", key |-> <<"g","r","a","p","h","i","c">>, default |-> VStr(<<>>)],
     [field |-> "graphic_alt", key |-> <<"g","r","a","p","h","i","c","_","a","l","t">>, default |-> VStr(<<"-">>)],
     [field |-> "sound_move", key |-> <<"s","o","u","n","d","_","m","o","v","e">>, default |-> VStr(<<>>)],
     [field |-> "sound_fight", key |-> <<"s","o","u","n","d","_","f","i","g","h","t">>, default |-> VStr(<<>>)]}

\* the enriched unit has every field, and every copied field has the value of
\* the record under its key, or its default when the record has no such key
Complete(data, unit) ==
    /\ DOMAIN unit = SchemaFields
    /\ \A c \in CopiedDefaults :
          unit[c.field] = IF c.key \in DOMAIN data THEN data[c.key] ELSE c.default

\* C12: for every record, the empty one too, the enriched unit has every field
\* of the schema, and each copied field holds the value of the record when the
\* key is there and else its default (hitpoints 10, unit_class Land, ...).
C12_TotalWithDefaults ==
    /\ (pc = "returned" /\ fn = "enhanced_unit") => Complete(arg.unit_data, ret)
    /\ \A k \in 1..Len(enhanced_units) :
          Complete(Lookup(raw_units, enhanced_units[k].key), enhanced_units[k].value)

\* C12's case: the empty record enriched, in a call and in a run
C12_Witness ==
    \/ /\ pc = "returned" /\ fn = "enhanced_unit"
       /\ arg.unit_data = EmptyDict
       /\ ret.hitpoints = VInt(10) /\ ret.graphic_alt = VStr(<<"-">>)
    \/ /\ pc = "done"
       /\ Lookup(raw_units, <<"a">>) = EmptyDict
       /\ Lookup(enhanced_units, <<"a">>).unit_class = VStr(<<"L","a","n","d">>)


\* a canonical identifier: no upper-case letter and no space
NoUpperNoSpace(s) == \A n \in 1..Len(s) : s[n] \notin Range(UpperCase) \cup {" "}

\* required_tech is None or a canonical string
TechNormalized(unit) ==
    \/ unit.required_tech = None
    \/ unit.required_tech.t = "str" /\ NoUpperNoSpace(unit.required_tech.v)

\* cargo is a list: the list of the record, the list of the one scalar that is
\* not empty, or the empty list when the record has no cargo or an empty one
CargoNormalized(data, unit) ==
    /\ unit.cargo.t = "list"
    /\ LET c == IF <<"c","a","r","g","o">> \in DOMAIN data THEN data[<<"c","a","r","g","o">>] ELSE None
       IN  CASE c.t = "list" -> unit.cargo = c
             [] c.t = "str" /\ c.v # <<>> -> unit.cargo = VList(<<c>>)
             [] c = None \/ c = VStr(<<>>) -> unit.cargo = VList(<<>>)
             [] OTHER -> TRUE

\* C13: for every record the parser emits (and every record of a call),
\* required_tech is None or a string with no upper-case letter and no space,
\* and cargo is a list: the record's list, a one-element list around a scalar
\* that is not empty, or the empty list when cargo is absent or empty.
C13_Normalization ==
    /\ (pc = "returned" /\ fn = "enhanced_unit") =>
          /\ TechNormalized(ret) /\ CargoNormalized(arg.unit_data, ret)
          /\ \A name \in DOMAIN tech_mappings : NoUpperNoSpace(tech_mappings[name])
    /\ \A k \in 1..Len(enhanced_units) :
          /\ TechNormalized(enhanced_units[k].value)
          /\ CargoNormalized(Lookup(raw_units, enhanced_units[k].key),
                             enhanced_units[k].value)

\* C13's case: a run whose unit has a scalar cargo, or a requirement whose
\* name has upper-case letters and a space
C13_Witness ==
    /\ pc = "done"
    /\ \/ /\ lines = <<<<"[","u","n","i","t","_","a","]">>, <<"c","a","r","g","o"," ","="," ","\"","M","i","s","s","i","l","e","\"">>>>
          /\ Lookup(enhanced_units, <<"a">>).cargo = VList(<<VStr(<<"M","i","s","s","i","l","e">>)>>)
       \/ /\ lines = <<<<"[","u","n","i","t","_","a","]">>, <<"r","e","q","s"," ","="," ","{"," ","\"","T","e","c","h","\"",","," ","\"","N","e","w"," ","T","e","c","h","\"",","," ","\"","P","l","a","y","e","r","\"">>, <<"}">>>>
          /\ Lookup(enhanced_units, <<"a">>).required_tech = VStr(<<"n","e","w","_","t","e","c","h">>)


\* two enriched units that differ in their id at most
SameButId(u, v) == [u EXCEPT !.id = v.id] = v

IsFloorSqrt(r, n) ==
    /\ r * r <= 100 * (1 + n) * (1 + n) * (1 + n)
    /\ (r + 1) * (r + 1) > 100 * (1 + n) * (1 + n) * (1 + n)

\* the cost the claim gives a technology of n direct requirements
IsClassicCost(cost, n) ==
    /\ cost >= 10
    /\ \E r \in 0..cost : IsFloorSqrt(r, n) /\ cost = IF r > 10 THEN r ELSE 10
    /\ n = 0 => cost = 10
    /\ n = 2 => cost = 51

\* C15: calculate_classic_cost is max(floor(sqrt(100 * (1 + n)^3)), 10) for a
\* technology of n direct requirements: 10 for n = 0, 51 for n = 2, at least 10
\* for every n, and 10 for an id that is not in the table; the cost of every
\* entry of the database is that cost, so at least 10.
C15_ClassicCost ==
    /\ (pc = "returned" /\ fn = "calculate_classic_cost") =>
          IF arg.tech_id \in Keys(arg.techs)
          THEN IsClassicCost(ret, Len(Lookup(arg.techs, arg.tech_id).requirements))
          ELSE ret = 10
    /\ fn = "tech_analysis" =>
          \A k \in 1..Len(ret) :
             /\ ret[k].key = arg[k].key
             /\ IsClassicCost(ret[k].value.cost, Len(arg[k].value.requirements))

\* C15's case: the database of techs_raw is complete, with costs 10 and 51 in
\* it, or the cost of a technology of more than two requirements is returned
C15_Witness ==
    \/ /\ pc = "techs_saved" /\ arg = techs_raw
       /\ \E k \in 1..Len(ret) : ret[k].value.cost = 10
       /\ \E k \in 1..Len(ret) : ret[k].value.cost = 51
    \/ /\ pc = "returned" /\ fn = "calculate_classic_cost"
       /\ arg.tech_id \in Keys(arg.techs)
       /\ Len(Lookup(arg.techs, arg.tech_id).requirements) > 2
       /\ ret > 51


\* the keys of an ordered dict, in its order
KeySeq(od) == [n \in 1..Len(od) |-> od[n].key]

\* the first line of text that is the header of the unit name
FirstHeader(text, name) ==
    CHOOSE k \in UnitHeaders(text) :
       /\ HeaderMatch(text[k + 1]).name = name
       /\ \A j \in UnitHeaders(text) : HeaderMatch(text[j + 1]).name = name => k <= j

\* keys are the names of the unit headers of text, each once, in the order in
\* which the sections are first met
InFirstEncounterOrder(keys, text) ==
    /\ Range(keys) = {HeaderMatch(text[k + 1]).name : k \in UnitHeaders(text)}
    /\ \A p, q \in 1..Len(keys) :
          p < q => FirstHeader(text, keys[p]) < FirstHeader(text, keys[q])

\* C16: the units of the final document are keyed in the order in which the
\* sections are first met in the ruleset, which is the key sequence of the
\* intermediate mapping; the id of every unit is its key, and about.total_units
\* is the number of entries.
C16_Document ==
    pc = "done" =>
       /\ KeySeq(final_structure.units) = KeySeq(units_data)
       /\ KeySeq(raw_units) = KeySeq(units_data)
       /\ InFirstEncounterOrder(KeySeq(final_structure.units), lines)
       /\ \A n \in 1..Len(final_structure.units) :
             final_structure.units[n].value.id = final_structure.units[n].key
       /\ final_structure.about.total_units = Len(final_structure.units)

\* C16's case: the document of a text in which the name of the first section
\* comes again after the second one
C16_Witness ==
    /\ pc = "done"
    /\ KeySeq(final_structure.units) = <<<<"b">>, <<"a">>>>
    /\ \E k \in UnitHeaders(lines) :
          /\ FirstHeader(lines, <<"a">>) < k
          /\ HeaderMatch(lines[k + 1]).name = <<"b">>
    /\ final_structure.about.total_units = 2


\* line begins with [unit_, the identifier name and ]
IsUnitHeader(line, name) ==
    /\ name # <<>>
    /\ \A n \in 1..Len(name) : name[n] \in WordChars
    /\ startswith(line, <<"[","u","n","i","t","_">> \o name \o <<"]">>)

\* the identifiers a line can hold
Identifiers(line) == {SubSeq(line, 7, n) : n \in 7..Len(line)}

\* C17: main takes the lines in increasing order, one at a time; at a line of
\* the form [unit_<identifier>] it yields the identifier and the index of the
\* line to parse_unit_section, and at every other line it yields nothing.  A
\* bracketed header that is no unit header is never yielded, and it ends the
\* scan of the section before it.
C17_UnitIndex ==
    [][/\ (pc = "main" /\ main_i < Len(lines)) =>
             /\ units_data' = units_data
             /\ \A c \in consumed : c[1] < main_i
             /\ IF \E name \in Identifiers(lines[main_i + 1]) :
                      IsUnitHeader(lines[main_i + 1], name)
                THEN /\ pc' = "section"
                     /\ IsUnitHeader(lines[main_i + 1], unit_name')
                     /\ start_idx' = main_i
                     /\ main_i' = main_i
                ELSE /\ pc' = "main"
                     /\ main_i' = main_i + 1
       /\ (pc = "section" /\ pc' = "main") =>
             /\ main_i = start_idx
             /\ main_i' = main_i + 1
             /\ Keys(units_data') = Keys(units_data) \cup {unit_name}
       /\ (pc = "section" /\ i < Len(lines) /\ startswith(Line(i), <<"[">>)
             /\ ~startswith(Line(i), <<"[","u","n","i","t","_">>)) =>
             /\ pc' = "main"
             /\ consumed' = consumed
             /\ units_data' = DictSet(units_data, unit_name, unit_data)]_vars

\* C17's case: two unit sections with a header that is no unit header between
\* them, which ended the scan of the first one and gave no entry
C17_Witness ==
    /\ pc = "saved"
    /\ lines = <<<<"[","u","n","i","t","_","a","]">>, <<"a","t","t","a","c","k"," ","="," ","3">>, <<"[","t","e","r","r","a","i","n","]">>, <<"[","u","n","i","t","_","b","]">>>>
    /\ KeySeq(units_data) = <<<<"a">>, <<"b">>>>
    /\ consumed = {<<0, 1>>}


\* the six veteran fields of the classic ruleset
VeteranConstants(unit) ==
    /\ unit.veteran_levels = VInt(4)
    /\ unit.veteran_names = VList(<<<<"g","r","e","e","n">>, <<"v","e","t","e","r","a","n">>, <<"h","a","r","d","e","n","e","d">>, <<"e","l","i","t","e">>>>)
    /\ unit.veteran_base_raise_chance = VList(<<50, 33, 20, 0>>)
    /\ unit.veteran_work_raise_chance = VList(<<0, 0, 0, 0>>)
    /\ unit.veteran_power_fact = VList(<<100, 150, 175, 200>>)
    /\ unit.veteran_move_bonus = VList(<<0, 0, 0, 0>>)

\* C18: the six veteran fields of every enriched unit are the same constants,
\* whatever the record holds, veteran_ keys of the record included.
C18_VeteranConstants ==
    /\ (pc = "returned" /\ fn = "enhanced_unit") => VeteranConstants(ret)
    /\ \A k \in 1..Len(enhanced_units) : VeteranConstants(enhanced_units[k].value)

\* C18's case: a unit whose record has a veteran_ key, enriched in a run or in
\* a call
C18_Witness ==
    \/ /\ pc = "done"
       /\ Lookup(raw_units, <<"a">>) = Put(EmptyDict, <<"v","e","t","e","r","a","n","_","l","e","v","e","l","s">>, VStr(<<"9">>))
       /\ Lookup(enhanced_units, <<"a">>).veteran_levels = VInt(4)
    \/ /\ pc = "returned" /\ fn = "enhanced_unit"
       /\ <<"v","e","t","e","r","a","n","_","n","a","m","e","s">> \in DOMAIN arg.unit_data
       /\ ret.veteran_names # arg.unit_data[<<"v","e","t","e","r","a","n","_","n","a","m","e","s">>]


\* parse_unit_section returns unit_data as it is, and main stores it; the line
\* at which the scan ends is not consumed
ReturnsRecord ==
    /\ pc' = "main"
    /\ units_data' = DictSet(units_data, unit_name, unit_data)
    /\ consumed' = consumed

\* C19: with a requirements block open, a line that begins a section header
\* ends the scan at once, and so does the end of the input; the buffer is
\* dropped: the record returned is the record of the moment the block opened,
\* since neither the opening line nor a line read while the block stays open
\* changes it.
C19_UnclosedBlock ==
    [][pc = "section" =>
          /\ (in_reqs /\ i < Len(lines) /\ startswith(Line(i), <<"[">>)) => ReturnsRecord
          /\ (in_reqs /\ i >= Len(lines)) => ReturnsRecord
          /\ (pc' = "section" /\ in_reqs') => unit_data' = unit_data]_vars

\* C19's case: a block that is open at a header, and one open at the end of
\* the input, each with a key = value line after its opening line
C19_Witness ==
    /\ pc = "saved"
    /\ \/ lines = <<<<"[","u","n","i","t","_","a","]">>, <<"r","e","q","s"," ","=">>, <<"a","t","t","a","c","k"," ","="," ","3">>, <<"[","u","n","i","t","_","b","]">>>>
       \/ lines = <<<<"[","u","n","i","t","_","a","]">>, <<"n","a","m","e"," ","="," ","\"","x","\"">>, <<"r","e","q","s"," ","=">>, <<"a","t","t","a","c","k"," ","="," ","3">>>>
    /\ <<"a","t","t","a","c","k">> \notin DOMAIN Lookup(units_data, <<"a">>)
    /\ <<"r","e","q","s">> \notin DOMAIN Lookup(units_data, <<"a">>)


\* the value of the record under reqs, None when there is none
ReqsOf(data) == IF <<"r","e","q","s">> \in DOMAIN data THEN data[<<"r","e","q","s">>] ELSE None

\* C20: the closing test is not made on the opening line.  An opening line
\* that ends with } leaves the block open and stores nothing; the key = value
\* lines after it are buffered and not stored; reqs is set only at a later
\* line that ends with }, read while the block is open.
C20_OneLineBlock ==
    [][AtLine =>
          /\ (startswith(Line(i), <<"r","e","q","s">>) /\ endswith(Line(i), <<"}">>)) =>
                /\ pc' = "section"
                /\ in_reqs' = TRUE
                /\ reqs_buffer' = Line(i)
                /\ unit_data' = unit_data
          /\ (in_reqs /\ pc' = "section" /\ ~endswith(Line(i), <<"}">>)) =>
                /\ unit_data' = unit_data
                /\ in_reqs' = TRUE
          /\ (<<"r","e","q","s">> \in DOMAIN unit_data' /\ ReqsOf(unit_data') # ReqsOf(unit_data)) =>
                /\ in_reqs
                /\ ~startswith(Line(i), <<"r","e","q","s">>)
                /\ endswith(Line(i), <<"}">>)]_vars

\* C20's case: a block on one line, a key = value line after it, and a later
\* line that ends with }: the record has reqs, and not the key of the line
C20_Witness ==
    /\ pc = "saved"
    /\ lines = <<<<"[","u","n","i","t","_","a","]">>, <<"r","e","q","s"," ","="," ","{"," ","\"","T","e","c","h","\"",","," ","\"","A","l","p","h","a","b","e","t","\"",","," ","\"","P","l","a","y","e","r","\""," ","}">>,
                 <<"a","t","t","a","c","k"," ","="," ","3">>, <<"}">>>>
    /\ DOMAIN Lookup(units_data, <<"a">>) = {<<"r","e","q","s">>}


\* the names of the unit headers of text
HeaderNames(text) == {HeaderMatch(text[k + 1]).name : k \in UnitHeaders(text)}

\* the last line of text that is the header of the unit name
LastHeader(text, name) ==
    CHOOSE k \in UnitHeaders(text) :
       /\ HeaderMatch(text[k + 1]).name = name
       /\ \A j \in UnitHeaders(text) : HeaderMatch(text[j + 1]).name = name => j <= k

\* od has one entry for each name of the unit headers of text
OneEntryPerName(od, text) ==
    /\ \A p, q \in 1..Len(od) : od[p].key = od[q].key => p = q
    /\ Keys(od) = HeaderNames(text)
    /\ Len(od) = Cardinality(HeaderNames(text))

\* C21: the intermediate mapping has one entry for each distinct name of a
\* unit header, so as many as there are names and not as there are header
\* lines; the record that a section returns replaces the entry of its name and
\* leaves the other entries as they are, so the entry of a name is the record
\* of the last section of that name; and in a section a key = value line of a
\* key the record has already stores the value of that line.
C21_LastWins ==
    [][/\ (pc = "section" /\ pc' = "main") =>
             /\ Lookup(units_data', unit_name) = unit_data
             /\ Keys(units_data') = Keys(units_data) \cup {unit_name}
             /\ \A name \in Keys(units_data) \ {unit_name} :
                   Lookup(units_data', name) = Lookup(units_data, name)
       /\ pc' = "saved" =>
             /\ OneEntryPerName(units_data', lines)
             /\ \A name \in HeaderNames(lines) :
                   Lookup(units_data', name)
                      = parse_unit_section(lines, LastHeader(lines, name))
       /\ (AtKeyValue /\ KeyOf(Line(i)) \in DOMAIN unit_data) =>
             /\ DOMAIN unit_data' = DOMAIN unit_data
             /\ unit_data'[KeyOf(Line(i))]
                   = ParseKeyValue(EmptyDict, Line(i))[KeyOf(Line(i))]]_vars

\* C21's case: a name that heads two sections with different records, and a
\* key on two lines of one section
C21_Witness ==
    /\ pc = "saved"
    /\ \/ /\ lines = <<<<"[","u","n","i","t","_","a","]">>, <<"a","t","t","a","c","k"," ","="," ","3">>, <<"[","u","n","i","t","_","a","]">>, <<"n","a","m","e"," ","="," ","\"","x","\"">>>>
          /\ Len(units_data) = 1
          /\ DOMAIN Lookup(units_data, <<"a">>) = {<<"n","a","m","e">>}
       \/ /\ lines = <<<<"[","u","n","i","t","_","a","]">>, <<"o","b","s","o","l","e","t","e","_","b","y"," ","="," ","\"","M","u","s","k","e","t","e","e","r","s","\"">>,
                       <<"o","b","s","o","l","e","t","e","_","b","y"," ","="," ","\"","N","o","n","e","\"">>>>
          /\ Lookup(units_data, <<"a">>)[<<"o","b","s","o","l","e","t","e","_","b","y">>] = VStr(<<"N","o","n","e">>)


\* the iterations of the loop of parse_unit_section begun so far: one for each
\* line read and kept, and one for the line at which the loop broke
Iterations ==
    Cardinality(consumed) + IF pc = "returned" /\ i < Len(lines) THEN 1 ELSE 0

\* the lines read are the lines from the one after start_idx to the one before
\* i, each read in one iteration
ReadInOrder ==
    /\ start_idx < i
    /\ i <= Len(lines)
    /\ consumed = {<<start_idx, k>> : k \in (start_idx + 1)..(i - 1)}
    /\ Iterations <= Len(lines) - start_idx - 1

\* C22: parse_unit_section(lines, start_idx) returns, for every text and every
\* index start_idx of it: the index goes up by one in every iteration, a line
\* is read only at an index after start_idx and before len(lines), there are
\* at most len(lines) - start_idx - 1 iterations, and from the last line the
\* empty record is returned.
C22_Terminates ==
    /\ [](pc \in {"section", "returned"} => ReadInOrder)
    /\ [][pc = "section" =>
             /\ pc' = "section" => (i < Len(lines) /\ i' = i + 1)
             /\ pc' = "returned" => (i' = i /\ ret' = VDict(unit_data))]_vars
    /\ [](pc = "returned" /\ start_idx = Len(lines) - 1 => ret = VDict(EmptyDict))
    /\ (pc = "section") ~> (pc = "returned")

\* C22's case: a call from the first line that has returned a record after
\* two iterations, and a call from the last line
C22_Witness ==
    /\ pc = "returned"
    /\ fn = "parse_unit_section"
    /\ \/ start_idx = 0 /\ Iterations = 2 /\ ret # VDict(EmptyDict)
       \/ start_idx = Len(lines) - 1 /\ Len(lines) > 1 /\ ret = VDict(EmptyDict)

====
